---- MODULE Spec2Model ----
(***************************************************************************)
(* Model of the rocinante bot scripts: bot/bolt_login.py (launcher login   *)
(* flow) and bot/post_launch.py (post-launch flow).                        *)
(*                                                                         *)
(* Units.  Time is counted in tenths of a second, so POLL_INTERVAL = 0.5 s *)
(* is 5 and timeout=10 is 100.  Match scores are counted in thousandths,   *)
(* so MATCH_THRESHOLD = 0.8 is 800.                                        *)
(*                                                                         *)
(* The screen, the window manager, the template directory and the code     *)
(* generator are the environment: what a capture shows, whether a template *)
(* asset decodes, what a window query answers and how long a device call   *)
(* takes are chosen nondeterministically at the call.                      *)
(***************************************************************************)
EXTENDS Integers, Sequences, FiniteSets, TLC

VARIABLES
    pc,                     \* position of the running script
    rc,                     \* exit status of the process, -1 while it runs
    exc,                    \* uncaught exception that ended the process
    configFile,             \* the JSON record load_config reads
    CONFIG,                 \* bolt_login.CONFIG, the global config dict
    need_login,             \* main's need_login: "unset", "True", "False"
    select_account_coords,  \* main's select_account_coords (None or (x, y))
    poll,                   \* frame of the running poll loop, and what it did
    ops,                    \* input events and code generations, in order
    clickAt,                \* where the latest step clicked, None if it did not
    anyCapture,             \* a screen capture was made in this run
    anyWindowQuery,         \* a window query was made in this run
    rlSeen,                 \* a query observed the successor window
    probeObs,               \* whether the disclaimer probe of Step 1 matched
    lastObs,                \* what the lookup of the latest step met, and where
    everyAnchorHit,         \* every anchor looked up so far was detected
    environ,                \* os.environ of the post-launch script
    character_name,         \* post_launch.main's character_name
    attempt,                \* lobby loop of post_launch.main: iterations begun
    call                    \* arguments and result of a helper called on its own

\* what the login flow and the poll loops leave alone
extra == <<environ, character_name, attempt, call>>

vars == <<pc, rc, exc, configFile, extra, CONFIG, need_login,
          select_account_coords, poll, ops, clickAt, anyCapture,
          anyWindowQuery, rlSeen, probeObs, lastObs, everyAnchorHit,
          environ, character_name, attempt, call>>

(***************************************************************************)
(* Program constants                                                       *)
(***************************************************************************)
MATCH_THRESHOLD == 800
POLL_INTERVAL == 5

\* MATCH_THRESHOLD * 0.75, the reduced threshold of the Cloudflare checkbox
CloudflareThreshold == (MATCH_THRESHOLD * 75) \div 100

\* margin of click_random_within
margin == 5

(***************************************************************************)
(* Bounds of the environment                                               *)
(***************************************************************************)
\* a capture (with its matching) or a window query takes 0..MaxLatency tenths
MaxLatency == 2
\* click_at takes its sleeps: at least 11 waypoints of 0.005 s, then 0.05 s and
\* 0.1 s (2 tenths), and up to MaxClickTime tenths (147 waypoints of 0.015 s for
\* a move across a 1920x1080 screen, then 0.15 s and 0.3 s)
MaxClickTime == 27
\* the poll specification calls the loops with timeouts 0..MaxTimeout tenths
MaxTimeout == 12

None == <<>>

\* no helper is being called on its own
NoCall == [fn |-> "none"]

Fields == {"username", "password", "totpSecret", "characterName"}

FieldValues(f) ==
    CASE f = "username" -> {"alice@example.com"}
      [] f = "password" -> {"hunter2"}
      [] f = "totpSecret" -> {"", "JBSWY3DP"}
      [] f = "characterName" -> {"Zezima"}

\* JSON records with every field, or with one field left out
ConfigRecords ==
    UNION { { c \in [D -> UNION {FieldValues(f) : f \in Fields}] :
                \A f \in D : c[f] \in FieldValues(f) } :
            D \in { D \in SUBSET Fields : Cardinality(D) >= Cardinality(Fields) - 1 } }

LoginTemplates ==
    { "i_understand_button.png", "login_button.png",
      "cloudflare_human_checkbox.png", "error_login_cant_open_page.png",
      "login_authenticator_app_button.png", "select_account_button.png",
      "user_select_label.png", "user_select_header.png",
      "character_select_label.png", "character_select_header.png",
      "play_button.png" }

\* (width, height) of a template image: template.shape[:2] is (h, w)
TemplateShape(template_name) ==
    IF template_name = "cloudflare_human_checkbox.png" THEN <<13, 12>> ELSE <<12, 11>>

Scores == {0, 599, 600, 699, 700, 799, 800, 1000}
Locs == {<<0, 0>>, <<100, 50>>}

\* take_screenshot returns None (NoScreen) or a frame.  A frame is modelled by
\* what the one lookup made in it meets: whether the template asset exists and
\* decodes (template_ok) and what matchTemplate/minMaxLoc find (max_val, max_loc)
NoScreen == [ok |-> FALSE, template_ok |-> TRUE, max_val |-> 0, max_loc |-> <<0, 0>>]
Frames == [ok : {TRUE}, template_ok : BOOLEAN, max_val : Scores, max_loc : Locs]
Screens == {NoScreen} \cup Frames

Latencies == 0..MaxLatency
ClickTimes == 2..MaxClickTime

Max(a, b) == IF a >= b THEN a ELSE b

(***************************************************************************)
(* bolt_login.py: helpers                                                  *)
(***************************************************************************)
\* load_config that forgets the subscript of one field
load_config_lenient(record) ==
    IF {"username", "password", "totpSecret"} \subseteq DOMAIN record
    THEN [raised |-> "none", config |-> record]
    ELSE [raised |-> "KeyError", config |-> record]

\* load_config: the four subscripts raise KeyError on a record lacking a field
RequiredFields == {"username", "password", "totpSecret", "characterName"}

\* lines 254-257 of bolt_login.py
load_config(record) ==
    IF RequiredFields \subseteq DOMAIN record
    THEN [raised |-> "none", config |-> record]
    ELSE [raised |-> "KeyError", config |-> record]

\* find_template that accepts only a score above the threshold
find_template_strict(screen, template_name, threshold, return_bounds) ==
    IF ~screen.template_ok THEN None
    ELSE IF screen.max_val > threshold
         THEN LET w == TemplateShape(template_name)[1]
                  h == TemplateShape(template_name)[2]
              IN  IF return_bounds
                  THEN <<screen.max_loc[1], screen.max_loc[2], w, h>>
                  ELSE <<screen.max_loc[1] + w \div 2, screen.max_loc[2] + h \div 2>>
         ELSE None

\* find_template: None for a missing or undecodable asset and for a best score
\* below the threshold; else the centre, or (left, top, w, h) with return_bounds
find_template(screen, template_name, threshold, return_bounds) ==
    IF ~screen.template_ok THEN None
    ELSE IF screen.max_val >= threshold
         THEN LET w == TemplateShape(template_name)[1]
                  h == TemplateShape(template_name)[2]
              IN  IF return_bounds
                  THEN <<screen.max_loc[1], screen.max_loc[2], w, h>>
                  ELSE <<screen.max_loc[1] + w \div 2, screen.max_loc[2] + h \div 2>>
         ELSE None

\* what a lookup of template_name in a capture meets, read off the environment
Observe(screen, template_name, threshold) ==
    IF ~screen.ok THEN "capture_failed"
    ELSE IF ~screen.template_ok THEN "asset_missing"
    ELSE IF screen.max_val >= threshold THEN "match"
    ELSE "no_match"

\* the observation a step leaves: where it looked, what it met, and the best
\* match's top-left corner if it met a match
NoObs == [site |-> "none", obs |-> "none", loc |-> None]
ObsAt(site, screen, template_name, threshold) ==
    [site |-> site, obs |-> Observe(screen, template_name, threshold),
     loc |-> IF Observe(screen, template_name, threshold) = "match"
             THEN screen.max_loc ELSE None]

\* click_at: move to (x, y), then one primary-button click; anchor names the
\* template whose detection led to the click
click_at(x, y, anchor) ==
    /\ ops' = Append(ops, <<"click", anchor>>)
    /\ clickAt' = <<x, y>>

no_click ==
    /\ ops' = ops
    /\ clickAt' = None

\* the offsets with the margin left out at the far side
RandOffsets_no_far_margin(size) == margin .. Max(margin + 1, size)

\* the offsets random.randint(margin, max(margin + 1, size - margin)) can give
RandOffsets(size) == margin .. Max(margin + 1, size - margin)

\* click_random_within: click_at(x + rand, y + rand), an offset drawn for each axis
click_random_within(x, y, width, height, anchor) ==
    \E dx \in RandOffsets(width), dy \in RandOffsets(height) :
        click_at(x + dx, y + dy, anchor)

\* type_text(text) followed by press_key("Return")
TypeAndSubmit(log, text) == log \o << <<"type", text>>, <<"key", "Return">> >>

(***************************************************************************)
(* Poll loops.  A frame is opened by the first evaluation of the loop test *)
(* at a call site and keeps what the call did:                             *)
(*   elapsed   the loop's own counter (sleeps only)                        *)
(*   wall      time really spent in the call                               *)
(*   captures, queries, sleeps, clicks   counts of the call                *)
(*   cap_ok, cap_failed   some capture of the call succeeded / failed      *)
(*   asset_error   a lookup of the call met a missing template asset       *)
(*   ret       "running", "True" (clicked / window id), "False" (timeout)  *)
(***************************************************************************)
WacSites == {"step1_dismiss", "step2_login", "step6a_auth", "p3_user_dropdown",
             "step8_play", "poll_wac"}
WfwSites == {"wait_bolt", "wait_runelite", "poll_wfw"}

\* the arguments of the call made at a site
CallArgs(site) ==
    CASE site = "step1_dismiss" ->
            [name |-> "i_understand_button.png", timeout |-> 50]
      [] site = "step2_login" ->
            [name |-> "login_button.png", timeout |-> 100]
      [] site = "step6a_auth" ->
            [name |-> "login_authenticator_app_button.png", timeout |-> 100]
      [] site = "p3_user_dropdown" ->
            [name |-> "user_select_label.png", timeout |-> 100]
      [] site = "step8_play" ->
            [name |-> "play_button.png", timeout |-> 100]
      [] site = "wait_bolt" -> [name |-> "Bolt", timeout |-> 600]
      [] site = "wait_runelite" -> [name |-> "RuneLite", timeout |-> 3000]
      [] OTHER -> [name |-> poll.name, timeout |-> poll.timeout]

\* where main continues after the call at a site returns
ReturnTo(site) ==
    CASE site = "step1_dismiss" -> "step2_login"
      [] site = "step2_login" -> "step3_cloudflare"
      [] site = "step6a_auth" -> "step6_totp"
      [] site = "p3_user_dropdown" -> "p4_select_user"
      [] site = "step8_play" -> "wait_runelite"
      [] site = "pl_play" -> "pl_lobby"
      [] site = "pl_confirm" -> "pl_name_confirmed"
      [] OTHER -> "poll_done"

Frame(site, name, timeout, threshold) ==
    [site |-> site, name |-> name, timeout |-> timeout, threshold |-> threshold,
     elapsed |-> 0, wall |-> 0, captures |-> 0, queries |-> 0, sleeps |-> 0,
     clicks |-> 0, cap_ok |-> FALSE, cap_failed |-> FALSE, asset_error |-> FALSE,
     ret |-> "running", found |-> None]

NoPoll == Frame("none", "", 0, MATCH_THRESHOLD)

\* the frame of the call at site: the running one, or a fresh one (elapsed = 0.0)
FrameAt(site) ==
    IF poll.site = site /\ poll.ret = "running" THEN poll
    ELSE Frame(site, CallArgs(site).name, CallArgs(site).timeout, MATCH_THRESHOLD)

\* The frame a call leaves behind.  A call that returns False has run the whole
\* loop, and all its counts are kept; of a call that found its target, main keeps
\* the result only, a call made on its own (the poll_* sites) keeps its counts.
Returned(frame, ret) ==
    IF frame.site \in {"poll_wac", "poll_wfw", "poll_pl_wac"} \/ ret = "False"
    THEN [frame EXCEPT !.ret = ret]
    ELSE [Frame(frame.site, frame.name, frame.timeout, frame.threshold) EXCEPT
              !.ret = ret, !.clicks = frame.clicks, !.found = frame.found]

\* the loop test off by one: one more cycle when elapsed has reached the timeout
LoopTest_inclusive(frame) == frame.elapsed <= frame.timeout

\* the loop test of wait_and_click and wait_for_window
LoopTest(frame) == frame.elapsed < frame.timeout

\* one capture made in a poll cycle, taking d
Captured(frame, screen, d) ==
    [frame EXCEPT !.captures = @ + 1, !.wall = @ + d,
                  !.cap_ok = @ \/ screen.ok,
                  !.cap_failed = @ \/ ~screen.ok,
                  !.asset_error = @ \/ (screen.ok /\ ~screen.template_ok)]

\* time.sleep(POLL_INTERVAL); elapsed += POLL_INTERVAL
Slept(frame) ==
    [frame EXCEPT !.sleeps = @ + 1, !.wall = @ + POLL_INTERVAL,
                  !.elapsed = @ + POLL_INTERVAL]

\* the click made, and the loop not left: sleep and poll again
WacHit_no_return(frame, screen, coords, d) ==
    /\ click_at(coords[1], coords[2], frame.name)
    /\ \E c \in ClickTimes :
           poll' = Slept([Captured(frame, screen, d) EXCEPT
                             !.clicks = @ + 1, !.found = coords, !.wall = @ + c])
    /\ pc' = pc

\* `if coords:` taken: click_at(coords[0], coords[1]); return True.  The call
\* returns when click_at has: after the pointer's travel and the two pauses
\* around the click, which take c
WacHit(frame, screen, coords, d) ==
    /\ click_at(coords[1], coords[2], frame.name)
    /\ \E c \in ClickTimes :
           poll' = Returned([Captured(frame, screen, d) EXCEPT
                                !.clicks = @ + 1, !.found = coords,
                                !.wall = @ + c], "True")
    /\ pc' = ReturnTo(pc)

\* a failed capture taken as fatal: the call gives up at once
WacMiss_abort_on_capture_failure(frame, screen, d) ==
    /\ no_click
    /\ poll' = IF screen.ok THEN Slept(Captured(frame, screen, d))
               ELSE Returned(Captured(frame, screen, d), "False")
    /\ pc' = IF screen.ok THEN pc ELSE ReturnTo(pc)

\* no screen, or no coords: sleep one interval and test the loop again
WacMiss(frame, screen, d) ==
    /\ no_click
    /\ poll' = Slept(Captured(frame, screen, d))
    /\ pc' = pc

\* the loop ended, and the call begun again instead of returning
WacTimeout_restart(frame) ==
    /\ no_click
    /\ poll' = Frame(frame.site, frame.name, frame.timeout, frame.threshold)
    /\ pc' = pc

\* the loop ended: log the timeout, return False
WacTimeout(frame) ==
    /\ no_click
    /\ poll' = Returned(frame, "False")
    /\ pc' = ReturnTo(pc)

\* one evaluation of `while elapsed < timeout` in wait_and_click, with the body
\* it guards: capture, lookup, click and return True, or sleep one interval;
\* the loop's exit returns False.  d is the time the capture and lookup take.
wait_and_click(screen, d) ==
    /\ pc \in WacSites
    /\ LET f == FrameAt(pc)
           coords == IF screen.ok
                     THEN find_template(screen, f.name, MATCH_THRESHOLD, FALSE)
                     ELSE None
       IN  IF LoopTest(f)
           THEN /\ anyCapture' = TRUE
                /\ lastObs' = ObsAt(pc, screen, f.name, MATCH_THRESHOLD)
                /\ everyAnchorHit' = (everyAnchorHit /\ coords # None)
                /\ IF coords # None
                   THEN WacHit(f, screen, coords, d)
                   ELSE WacMiss(f, screen, d)
           ELSE /\ WacTimeout(f)
                /\ lastObs' = NoObs
                /\ UNCHANGED <<anyCapture, everyAnchorHit>>
    /\ UNCHANGED <<rc, exc, configFile, extra, CONFIG, need_login,
                   select_account_coords, anyWindowQuery, rlSeen, probeObs>>

\* main going on after wait_for_window without testing what it returned
AfterWindowWait_unchecked(site, found) ==
    CASE site = "wait_bolt" -> [pc |-> "step1_probe", rc |-> -1]
      [] site = "wait_runelite" -> [pc |-> "maximize", rc |-> -1]
      [] OTHER -> [pc |-> "poll_done", rc |-> -1]

\* how main goes on after wait_for_window at a site returned found / not found
AfterWindowWait(site, found) ==
    CASE site = "wait_bolt" ->
            IF found THEN [pc |-> "step1_probe", rc |-> -1]
            ELSE [pc |-> "done", rc |-> 1]
      [] site = "wait_runelite" ->
            IF found THEN [pc |-> "maximize", rc |-> -1]
            ELSE [pc |-> "done", rc |-> 1]
      [] OTHER -> [pc |-> "poll_done", rc |-> -1]

WindowAnswers == {"found", "none", "error"}

\* one evaluation of `while elapsed < timeout` in wait_for_window, with its
\* body: query, return the id, or (nothing found, or the query raised) sleep
wait_for_window(answer, d) ==
    /\ pc \in WfwSites
    /\ LET f == FrameAt(pc)
       IN  IF LoopTest(f)
           THEN /\ anyWindowQuery' = TRUE
                /\ IF answer = "found"
                   THEN /\ poll' = Returned([f EXCEPT !.queries = @ + 1,
                                                       !.wall = @ + d], "True")
                        /\ rlSeen' = (rlSeen \/ f.name = "RuneLite")
                        /\ pc' = AfterWindowWait(pc, TRUE).pc
                        /\ rc' = AfterWindowWait(pc, TRUE).rc
                   ELSE /\ poll' = Slept([f EXCEPT !.queries = @ + 1,
                                                    !.wall = @ + d])
                        /\ UNCHANGED <<pc, rc, rlSeen>>
           ELSE /\ poll' = Returned(f, "False")
                /\ pc' = AfterWindowWait(pc, FALSE).pc
                /\ rc' = AfterWindowWait(pc, FALSE).rc
                /\ UNCHANGED <<anyWindowQuery, rlSeen>>
    /\ no_click
    /\ lastObs' = NoObs
    /\ UNCHANGED <<exc, configFile, extra, CONFIG, need_login,
                   select_account_coords, anyCapture, probeObs, everyAnchorHit>>

(***************************************************************************)
(* bolt_login.py: main, one action per step                                *)
(***************************************************************************)
\* CONFIG = load_config(args.config); a KeyError ends the process (status 1)
main_load_config ==
    /\ pc = "load_config"
    /\ LET r == load_config(configFile)
       IN  IF r.raised = "none"
           THEN /\ CONFIG' = r.config
                /\ pc' = "check_running"
                /\ UNCHANGED <<rc, exc>>
           ELSE /\ exc' = r.raised
                /\ rc' = 1
                /\ pc' = "done"
                /\ UNCHANGED CONFIG
    /\ no_click
    /\ lastObs' = NoObs
    /\ UNCHANGED <<configFile, extra, need_login, select_account_coords, poll,
                   anyCapture, anyWindowQuery, rlSeen, probeObs, everyAnchorHit>>

\* the initial check made, and its answer not acted on
main_check_running_no_return(answer) ==
    /\ pc = "check_running"
    /\ anyWindowQuery' = TRUE
    /\ rlSeen' = (answer = "found")
    /\ pc' = "wait_bolt"
    /\ no_click
    /\ lastObs' = NoObs
    /\ UNCHANGED <<rc, exc, configFile, extra, CONFIG, need_login,
                   select_account_coords, poll, anyCapture, probeObs,
                   everyAnchorHit>>

\* "Check if RuneLite is already running": one window query, return 0 if found.
\* This subprocess.run is in no try block: when it raises (FileNotFoundError,
\* xdotool not being installed) the exception ends the process with status 1.
main_check_running(answer) ==
    /\ pc = "check_running"
    /\ anyWindowQuery' = TRUE
    /\ CASE answer = "found" ->
               /\ rlSeen' = TRUE
               /\ rc' = 0
               /\ pc' = "done"
               /\ UNCHANGED exc
         [] answer = "error" ->
               /\ exc' = "FileNotFoundError"
               /\ rc' = 1
               /\ pc' = "done"
               /\ UNCHANGED rlSeen
         [] OTHER ->
               /\ pc' = "wait_bolt"
               /\ UNCHANGED <<rc, exc, rlSeen>>
    /\ no_click
    /\ lastObs' = NoObs
    /\ UNCHANGED <<configFile, extra, CONFIG, need_login,
                   select_account_coords, poll, anyCapture, probeObs,
                   everyAnchorHit>>

\* need_login from the capture and the asset alone, the score not compared
NeedLogin_ignores_score(screen) == screen.ok /\ screen.template_ok

\* need_login taken for granted when there is no capture to look at
NeedLogin_assumed_without_capture(screen) ==
    ~screen.ok \/ find_template(screen, "i_understand_button.png", MATCH_THRESHOLD, FALSE) # None

\* need_login = screen is not None and find_template(...) is not None
NeedLogin(screen) ==
    screen.ok /\ find_template(screen, "i_understand_button.png", MATCH_THRESHOLD, FALSE) # None

\* Step 1: the disclaimer probe, the fork between the two paths
main_step1_probe(screen) ==
    /\ pc = "step1_probe"
    /\ anyCapture' = TRUE
    /\ lastObs' = ObsAt(pc, screen, "i_understand_button.png", MATCH_THRESHOLD)
    /\ probeObs' = IF lastObs'.obs = "match" THEN "match" ELSE "no_match"
    /\ need_login' = IF NeedLogin(screen) THEN "True" ELSE "False"
    /\ everyAnchorHit' = NeedLogin(screen)
    /\ pc' = IF NeedLogin(screen) THEN "step1_dismiss" ELSE "p2_select_account"
    /\ no_click
    /\ UNCHANGED <<rc, exc, configFile, extra, CONFIG, select_account_coords,
                   poll, anyWindowQuery, rlSeen>>

\* Step 3 made fatal: return 1 when the checkbox is not detected
main_step3_cloudflare_required(screen) ==
    /\ pc = "step3_cloudflare"
    /\ anyCapture' = TRUE
    /\ lastObs' = ObsAt(pc, screen, "cloudflare_human_checkbox.png", CloudflareThreshold)
    /\ LET bounds == IF screen.ok
                     THEN find_template(screen, "cloudflare_human_checkbox.png",
                                        CloudflareThreshold, TRUE)
                     ELSE None
       IN  /\ everyAnchorHit' = (everyAnchorHit /\ bounds # None)
           /\ IF bounds # None
              THEN /\ click_random_within(bounds[1], bounds[2], bounds[3], bounds[4],
                                          "cloudflare_human_checkbox.png")
                   /\ pc' = "step4_email"
                   /\ UNCHANGED rc
              ELSE /\ no_click
                   /\ pc' = "done"
                   /\ rc' = 1
    /\ UNCHANGED <<exc, configFile, extra, CONFIG, need_login,
                   select_account_coords, poll, anyWindowQuery, rlSeen, probeObs>>

\* Step 3: one capture; the checkbox is looked up at the reduced threshold with
\* return_bounds and clicked at a random point by click_random_within
main_step3_cloudflare(screen) ==
    /\ pc = "step3_cloudflare"
    /\ anyCapture' = TRUE
    /\ lastObs' = ObsAt(pc, screen, "cloudflare_human_checkbox.png", CloudflareThreshold)
    /\ LET bounds == IF screen.ok
                     THEN find_template(screen, "cloudflare_human_checkbox.png",
                                        CloudflareThreshold, TRUE)
                     ELSE None
       IN  /\ everyAnchorHit' = (everyAnchorHit /\ bounds # None)
           /\ IF bounds # None
              THEN click_random_within(bounds[1], bounds[2], bounds[3], bounds[4],
                                       "cloudflare_human_checkbox.png")
              ELSE no_click
    /\ pc' = "step4_email"
    /\ UNCHANGED <<rc, exc, configFile, extra, CONFIG, need_login,
                   select_account_coords, poll, anyWindowQuery, rlSeen, probeObs>>

\* Step 4: type the account identifier and press Return
main_step4_email ==
    /\ pc = "step4_email"
    /\ ops' = TypeAndSubmit(ops, CONFIG["username"])
    /\ clickAt' = None
    /\ lastObs' = NoObs
    /\ pc' = "step4_error_check"
    /\ UNCHANGED <<rc, exc, configFile, extra, CONFIG, need_login,
                   select_account_coords, poll, anyCapture, anyWindowQuery,
                   rlSeen, probeObs, everyAnchorHit>>

\* the error check that never fires
ErrorBannerDetected_never(screen) == FALSE

\* the "can't open page" check: screen is not None and find_template(...) is not None
ErrorBannerDetected(screen) ==
    screen.ok /\ find_template(screen, "error_login_cant_open_page.png",
                               MATCH_THRESHOLD, FALSE) # None

\* the error check that goes back to the login button instead of returning
main_step4_error_check_retry(screen) ==
    /\ pc = "step4_error_check"
    /\ anyCapture' = TRUE
    /\ lastObs' = ObsAt(pc, screen, "error_login_cant_open_page.png", MATCH_THRESHOLD)
    /\ pc' = IF ErrorBannerDetected(screen) THEN "step2_login" ELSE "step5_password"
    /\ no_click
    /\ UNCHANGED <<rc, exc, configFile, extra, CONFIG, need_login,
                   select_account_coords, poll, anyWindowQuery, rlSeen, probeObs,
                   everyAnchorHit>>

main_step4_error_check(screen) ==
    /\ pc = "step4_error_check"
    /\ anyCapture' = TRUE
    /\ lastObs' = ObsAt(pc, screen, "error_login_cant_open_page.png", MATCH_THRESHOLD)
    /\ IF ErrorBannerDetected(screen)
       THEN /\ rc' = 1
            /\ pc' = "done"
       ELSE /\ pc' = "step5_password"
            /\ UNCHANGED rc
    /\ no_click
    /\ UNCHANGED <<exc, configFile, extra, CONFIG, need_login,
                   select_account_coords, poll, anyWindowQuery, rlSeen, probeObs,
                   everyAnchorHit>>

\* Step 5: type the secret credential and press Return
main_step5_password ==
    /\ pc = "step5_password"
    /\ ops' = TypeAndSubmit(ops, CONFIG["password"])
    /\ clickAt' = None
    /\ lastObs' = NoObs
    /\ pc' = "step6_2fa"
    /\ UNCHANGED <<rc, exc, configFile, extra, CONFIG, need_login,
                   select_account_coords, poll, anyCapture, anyWindowQuery,
                   rlSeen, probeObs, everyAnchorHit>>

\* Step 6 with the test of totp_secret inverted
main_step6_2fa_inverted ==
    /\ pc = "step6_2fa"
    /\ pc' = IF CONFIG["totpSecret"] = "" THEN "step6a_auth" ELSE "step7_char_dropdown"
    /\ no_click
    /\ lastObs' = NoObs
    /\ UNCHANGED <<rc, exc, configFile, extra, CONFIG, need_login,
                   select_account_coords, poll, anyCapture, anyWindowQuery,
                   rlSeen, probeObs, everyAnchorHit>>

\* Step 6: `if totp_secret:` is false for the empty string
main_step6_2fa ==
    /\ pc = "step6_2fa"
    /\ pc' = IF CONFIG["totpSecret"] # "" THEN "step6a_auth" ELSE "step7_char_dropdown"
    /\ no_click
    /\ lastObs' = NoObs
    /\ UNCHANGED <<rc, exc, configFile, extra, CONFIG, need_login,
                   select_account_coords, poll, anyCapture, anyWindowQuery,
                   rlSeen, probeObs, everyAnchorHit>>

TotpCode == "123456"
\* what subprocess.run(['oathtool', ...], check=True) does: it returns, it raises
\* CalledProcessError (non-zero exit), or it raises FileNotFoundError (oathtool
\* not installed)
TotpResults == {"ok", "CalledProcessError", "FileNotFoundError"}

\* the failure of the code generator logged and the flow carried on
main_step6_totp_ignores_failure(result) ==
    /\ pc = "step6_totp"
    /\ ops' = IF result = "ok"
              THEN TypeAndSubmit(Append(ops, <<"oathtool", result>>), TotpCode)
              ELSE Append(ops, <<"oathtool", result>>)
    /\ pc' = "step7_char_dropdown"
    /\ clickAt' = None
    /\ lastObs' = NoObs
    /\ UNCHANGED <<rc, exc, configFile, extra, CONFIG, need_login,
                   select_account_coords, poll, anyCapture, anyWindowQuery,
                   rlSeen, probeObs, everyAnchorHit>>

\* oathtool: on success the code is typed and submitted, on
\* CalledProcessError main logs the failure and returns 1; any other exception
\* passes the except clause and ends the process with status 1
main_step6_totp(result) ==
    /\ pc = "step6_totp"
    /\ CASE result = "ok" ->
               /\ ops' = TypeAndSubmit(Append(ops, <<"oathtool", result>>), TotpCode)
               /\ pc' = "step7_char_dropdown"
               /\ UNCHANGED <<rc, exc>>
         [] result = "CalledProcessError" ->
               /\ ops' = Append(ops, <<"oathtool", result>>)
               /\ rc' = 1
               /\ pc' = "done"
               /\ UNCHANGED exc
         [] OTHER ->
               /\ ops' = Append(ops, <<"oathtool", result>>)
               /\ exc' = result
               /\ rc' = 1
               /\ pc' = "done"
    /\ clickAt' = None
    /\ lastObs' = NoObs
    /\ UNCHANGED <<configFile, extra, CONFIG, need_login,
                   select_account_coords, poll, anyCapture, anyWindowQuery,
                   rlSeen, probeObs, everyAnchorHit>>

\* a single capture and lookup at the default threshold, as the one-shot steps do
Lookup(screen, template_name) ==
    IF screen.ok THEN find_template(screen, template_name, MATCH_THRESHOLD, FALSE)
    ELSE None

\* Step 2 (persisted): click the account selector and remember its coordinates
main_p2_select_account(screen) ==
    /\ pc = "p2_select_account"
    /\ anyCapture' = TRUE
    /\ lastObs' = ObsAt(pc, screen, "select_account_button.png", MATCH_THRESHOLD)
    /\ LET coords == Lookup(screen, "select_account_button.png")
       IN  /\ select_account_coords' = coords
           /\ everyAnchorHit' = (everyAnchorHit /\ coords # None)
           /\ IF coords # None
              THEN click_at(coords[1], coords[2], "select_account_button.png")
              ELSE no_click
    /\ pc' = "p3_user_dropdown"
    /\ UNCHANGED <<rc, exc, configFile, extra, CONFIG, need_login, poll,
                   anyWindowQuery, rlSeen, probeObs>>

\* Step 4 (persisted) keeping its coordinates in select_account_coords
main_p4_select_user_clobbers(screen) ==
    /\ pc = "p4_select_user"
    /\ anyCapture' = TRUE
    /\ lastObs' = ObsAt(pc, screen, "user_select_header.png", MATCH_THRESHOLD)
    /\ LET coords == Lookup(screen, "user_select_header.png")
       IN  /\ everyAnchorHit' = (everyAnchorHit /\ coords # None)
           /\ select_account_coords' = coords
           /\ IF coords # None
              THEN click_at(coords[1], coords[2] + 20, "user_select_header.png")
              ELSE no_click
    /\ pc' = "p5_minimize"
    /\ UNCHANGED <<rc, exc, configFile, extra, CONFIG, need_login,
                   poll, anyWindowQuery, rlSeen, probeObs>>

\* Step 4 (persisted) made fatal: return 1 when the header is not detected
main_p4_select_user_or_abort(screen) ==
    /\ pc = "p4_select_user"
    /\ anyCapture' = TRUE
    /\ lastObs' = ObsAt(pc, screen, "user_select_header.png", MATCH_THRESHOLD)
    /\ LET coords == Lookup(screen, "user_select_header.png")
       IN  /\ everyAnchorHit' = (everyAnchorHit /\ coords # None)
           /\ IF coords # None
              THEN /\ click_at(coords[1], coords[2] + 20, "user_select_header.png")
                   /\ pc' = "p5_minimize"
                   /\ UNCHANGED rc
              ELSE /\ no_click
                   /\ pc' = "done"
                   /\ rc' = 1
    /\ UNCHANGED <<exc, configFile, extra, CONFIG, need_login,
                   select_account_coords, poll, anyWindowQuery, rlSeen, probeObs>>

\* Step 4 (persisted): click 20 pixels below the user list header
main_p4_select_user(screen) ==
    /\ pc = "p4_select_user"
    /\ anyCapture' = TRUE
    /\ lastObs' = ObsAt(pc, screen, "user_select_header.png", MATCH_THRESHOLD)
    /\ LET coords == Lookup(screen, "user_select_header.png")
       IN  /\ everyAnchorHit' = (everyAnchorHit /\ coords # None)
           /\ IF coords # None
              THEN click_at(coords[1], coords[2] + 20, "user_select_header.png")
              ELSE no_click
    /\ pc' = "p5_minimize"
    /\ UNCHANGED <<rc, exc, configFile, extra, CONFIG, need_login,
                   select_account_coords, poll, anyWindowQuery, rlSeen, probeObs>>

\* Step 5 (persisted): click the remembered coordinates again, if any
main_p5_minimize ==
    /\ pc = "p5_minimize"
    /\ IF select_account_coords # None
       THEN click_at(select_account_coords[1], select_account_coords[2],
                     "select_account_button.png")
       ELSE no_click
    /\ lastObs' = NoObs
    /\ pc' = "step7_char_dropdown"
    /\ UNCHANGED <<rc, exc, configFile, extra, CONFIG, need_login,
                   select_account_coords, poll, anyCapture, anyWindowQuery,
                   rlSeen, probeObs, everyAnchorHit>>

\* Step 7: click 30 pixels below the character select label
main_step7_char_dropdown(screen) ==
    /\ pc = "step7_char_dropdown"
    /\ anyCapture' = TRUE
    /\ lastObs' = ObsAt(pc, screen, "character_select_label.png", MATCH_THRESHOLD)
    /\ LET coords == Lookup(screen, "character_select_label.png")
       IN  /\ everyAnchorHit' = (everyAnchorHit /\ coords # None)
           /\ IF coords # None
              THEN click_at(coords[1], coords[2] + 30, "character_select_label.png")
              ELSE no_click
    /\ pc' = "step7a_select_char"
    /\ UNCHANGED <<rc, exc, configFile, extra, CONFIG, need_login,
                   select_account_coords, poll, anyWindowQuery, rlSeen, probeObs>>

\* Step 7a: click 30 pixels below the character select header
main_step7a_select_char(screen) ==
    /\ pc = "step7a_select_char"
    /\ anyCapture' = TRUE
    /\ lastObs' = ObsAt(pc, screen, "character_select_header.png", MATCH_THRESHOLD)
    /\ LET coords == Lookup(screen, "character_select_header.png")
       IN  /\ everyAnchorHit' = (everyAnchorHit /\ coords # None)
           /\ IF coords # None
              THEN click_at(coords[1], coords[2] + 30, "character_select_header.png")
              ELSE no_click
    /\ pc' = "step8_play"
    /\ UNCHANGED <<rc, exc, configFile, extra, CONFIG, need_login,
                   select_account_coords, poll, anyWindowQuery, rlSeen, probeObs>>

\* after the successor window was found: settle, query it again to move and
\* resize it (a failure is only logged), return 0
main_maximize(answer) ==
    /\ pc = "maximize"
    /\ anyWindowQuery' = TRUE
    /\ rc' = 0
    /\ pc' = "done"
    /\ no_click
    /\ lastObs' = NoObs
    /\ UNCHANGED <<exc, configFile, extra, CONFIG, need_login,
                   select_account_coords, poll, anyCapture, rlSeen, probeObs,
                   everyAnchorHit>>

(***************************************************************************)
(* The login flow                                                          *)
(***************************************************************************)
Init ==
    /\ pc = "load_config"
    /\ rc = -1
    /\ exc = "none"
    /\ configFile \in ConfigRecords
    /\ CONFIG = << >>
    /\ need_login = "unset"
    /\ select_account_coords = None
    /\ poll = NoPoll
    /\ ops = << >>
    /\ clickAt = None
    /\ anyCapture = FALSE
    /\ anyWindowQuery = FALSE
    /\ rlSeen = FALSE
    /\ probeObs = "unset"
    /\ lastObs = NoObs
    /\ everyAnchorHit = TRUE
    /\ environ = << >>
    /\ character_name = ""
    /\ attempt = 0
    /\ call = NoCall

Next ==
    \/ main_load_config
    \/ \E answer \in WindowAnswers : main_check_running(answer)
    \/ \E answer \in WindowAnswers : wait_for_window(answer, 0)
    \/ \E screen \in Screens : main_step1_probe(screen)
    \/ \E screen \in Screens : wait_and_click(screen, 0)
    \/ \E screen \in Screens : main_step3_cloudflare(screen)
    \/ main_step4_email
    \/ \E screen \in Screens : main_step4_error_check(screen)
    \/ main_step5_password
    \/ main_step6_2fa
    \/ \E result \in TotpResults : main_step6_totp(result)
    \/ \E screen \in Screens : main_p2_select_account(screen)
    \/ \E screen \in Screens : main_p4_select_user(screen)
    \/ main_p5_minimize
    \/ \E screen \in Screens : main_step7_char_dropdown(screen)
    \/ \E screen \in Screens : main_step7a_select_char(screen)
    \/ \E answer \in WindowAnswers : main_maximize(answer)

Spec == Init /\ [][Next]_vars

(***************************************************************************)
(* post_launch.py: its own copies of find_template and wait_and_click      *)
(***************************************************************************)
\* find_template of post_launch.py accepting only a score above the threshold
pl_find_template_strict(screen, template_name, threshold, return_bounds) ==
    IF ~screen.template_ok THEN None
    ELSE IF screen.max_val > threshold
         THEN LET w == TemplateShape(template_name)[1]
                  h == TemplateShape(template_name)[2]
              IN  IF return_bounds
                  THEN <<screen.max_loc[1], screen.max_loc[2], w, h>>
                  ELSE <<screen.max_loc[1] + w \div 2, screen.max_loc[2] + h \div 2>>
         ELSE None

\* find_template of post_launch.py: cv2.imread gives None for a missing or
\* undecodable asset, and the function returns None
pl_find_template(screen, template_name, threshold, return_bounds) ==
    IF ~screen.template_ok THEN None
    ELSE IF screen.max_val >= threshold
         THEN LET w == TemplateShape(template_name)[1]
                  h == TemplateShape(template_name)[2]
              IN  IF return_bounds
                  THEN <<screen.max_loc[1], screen.max_loc[2], w, h>>
                  ELSE <<screen.max_loc[1] + w \div 2, screen.max_loc[2] + h \div 2>>
         ELSE None

\* click_random_within of post_launch.py, with its own margin
pl_margin == 5
pl_RandOffsets(size) == pl_margin .. Max(pl_margin + 1, size - pl_margin)
pl_click_random_within(x, y, width, height, anchor) ==
    \E dx \in pl_RandOffsets(width), dy \in pl_RandOffsets(height) :
        click_at(x + dx, y + dy, anchor)

PlWacSites == {"pl_play", "pl_confirm", "poll_pl_wac"}

\* threshold=0.6 of the Play button, threshold=0.7 of the lobby anchor
PlayThreshold == 600
LobbyThreshold == 700
\* for attempt in range(6)
LobbyAttempts == 6

\* the arguments of the call post_launch.main makes at a site
PlCallArgs(site) ==
    CASE site = "pl_play" ->
            [name |-> "runelite_play_button.png", timeout |-> 300,
             threshold |-> PlayThreshold]
      [] site = "pl_confirm" ->
            [name |-> "name_confirm_button.png", timeout |-> 50,
             threshold |-> MATCH_THRESHOLD]
      [] OTHER -> [name |-> poll.name, timeout |-> poll.timeout,
                   threshold |-> poll.threshold]

\* the frame of the call at site: the running one, or a fresh one
PlFrameAt(site) ==
    IF poll.site = site /\ poll.ret = "running" THEN poll
    ELSE Frame(site, PlCallArgs(site).name, PlCallArgs(site).timeout,
               PlCallArgs(site).threshold)

\* wait_and_click of post_launch.py: as in bolt_login.py, with the threshold
\* of the call passed on to find_template
pl_wait_and_click(screen, d) ==
    /\ pc \in PlWacSites
    /\ LET f == PlFrameAt(pc)
           coords == IF screen.ok
                     THEN pl_find_template(screen, f.name, f.threshold, FALSE)
                     ELSE None
       IN  IF LoopTest(f)
           THEN /\ anyCapture' = TRUE
                /\ lastObs' = ObsAt(pc, screen, f.name, f.threshold)
                /\ everyAnchorHit' = (everyAnchorHit /\ coords # None)
                /\ IF coords # None
                   THEN WacHit(f, screen, coords, d)
                   ELSE WacMiss(f, screen, d)
           ELSE /\ WacTimeout(f)
                /\ lastObs' = NoObs
                /\ UNCHANGED <<anyCapture, everyAnchorHit>>
    /\ UNCHANGED <<rc, exc, configFile, extra, CONFIG, need_login,
                   select_account_coords, anyWindowQuery, rlSeen, probeObs>>

(***************************************************************************)
(* post_launch.py: main, one action per phase                              *)
(***************************************************************************)
\* the process environment: CHARACTER_NAME unset, empty, or a name
Environs ==
    { [k \in D |-> v] : D \in SUBSET {"CHARACTER_NAME"}, v \in {"", "Zezima"} }

\* the variables of the login flow, which the post-launch flow leaves alone
loginVars == <<exc, configFile, CONFIG, need_login, select_account_coords,
               anyWindowQuery, rlSeen, probeObs, call>>

\* a single capture and lookup: `if screen is not None: coords = find_template(...)`
PlLookup(screen, template_name, threshold) ==
    IF screen.ok THEN pl_find_template(screen, template_name, threshold, FALSE)
    ELSE None

\* character_name = os.environ.get('CHARACTER_NAME', '')
pl_main_start ==
    /\ pc = "pl_start"
    /\ character_name' = IF "CHARACTER_NAME" \in DOMAIN environ
                         THEN environ["CHARACTER_NAME"] ELSE ""
    /\ pc' = "pl_license"
    /\ no_click
    /\ lastObs' = NoObs
    /\ UNCHANGED <<rc, loginVars, environ, attempt, poll, anyCapture, everyAnchorHit>>

\* Phase 1 made fatal: return 1 when there is no capture to look at
pl_main_license_required(screen) ==
    /\ pc = "pl_license"
    /\ anyCapture' = TRUE
    /\ lastObs' = ObsAt(pc, screen, "license_accept_button.png", MATCH_THRESHOLD)
    /\ LET coords == PlLookup(screen, "license_accept_button.png", MATCH_THRESHOLD)
       IN  /\ everyAnchorHit' = (everyAnchorHit /\ coords # None)
           /\ IF coords # None
              THEN click_at(coords[1], coords[2], "license_accept_button.png")
              ELSE no_click
    /\ pc' = IF screen.ok THEN "pl_play" ELSE "done"
    /\ rc' = IF screen.ok THEN rc ELSE 1
    /\ UNCHANGED <<loginVars, environ, character_name, attempt, poll>>

\* Phase 1: one capture; the license button is clicked if it is detected
pl_main_license(screen) ==
    /\ pc = "pl_license"
    /\ anyCapture' = TRUE
    /\ lastObs' = ObsAt(pc, screen, "license_accept_button.png", MATCH_THRESHOLD)
    /\ LET coords == PlLookup(screen, "license_accept_button.png", MATCH_THRESHOLD)
       IN  /\ everyAnchorHit' = (everyAnchorHit /\ coords # None)
           /\ IF coords # None
              THEN click_at(coords[1], coords[2], "license_accept_button.png")
              ELSE no_click
    /\ pc' = "pl_play"
    /\ UNCHANGED <<rc, loginVars, environ, character_name, attempt, poll>>

\* the lobby loop that clicks and does not leave the loop
pl_main_lobby_no_break(screen) ==
    /\ pc = "pl_lobby"
    /\ attempt < LobbyAttempts
    /\ anyCapture' = TRUE
    /\ lastObs' = ObsAt(pc, screen, "lobby_click_to_play.png", LobbyThreshold)
    /\ attempt' = attempt + 1
    /\ LET coords == PlLookup(screen, "lobby_click_to_play.png", LobbyThreshold)
       IN  /\ everyAnchorHit' = (everyAnchorHit /\ coords # None)
           /\ IF coords # None
              THEN click_at(coords[1], coords[2], "lobby_click_to_play.png")
              ELSE no_click
    /\ pc' = IF attempt + 1 < LobbyAttempts THEN pc ELSE "pl_name_entry"
    /\ UNCHANGED <<rc, loginVars, environ, character_name, poll>>

\* Phase 2.5: one iteration of `for attempt in range(6)`: capture, lookup at
\* threshold 0.7; a detection clicks and breaks, otherwise the loop goes on
\* until its range is exhausted (the else clause only logs)
pl_main_lobby(screen) ==
    /\ pc = "pl_lobby"
    /\ attempt < LobbyAttempts
    /\ anyCapture' = TRUE
    /\ lastObs' = ObsAt(pc, screen, "lobby_click_to_play.png", LobbyThreshold)
    /\ attempt' = attempt + 1
    /\ LET coords == PlLookup(screen, "lobby_click_to_play.png", LobbyThreshold)
       IN  /\ everyAnchorHit' = (everyAnchorHit /\ coords # None)
           /\ IF coords # None
              THEN /\ click_at(coords[1], coords[2], "lobby_click_to_play.png")
                   /\ pc' = "pl_name_entry"
              ELSE /\ no_click
                   /\ pc' = IF attempt + 1 < LobbyAttempts THEN pc ELSE "pl_name_entry"
    /\ UNCHANGED <<rc, loginVars, environ, character_name, poll>>

\* name entry entered whatever character_name is
pl_main_name_entry_unconditional(screen) ==
    /\ pc = "pl_name_entry"
    /\ anyCapture' = TRUE
    /\ lastObs' = ObsAt(pc, screen, "name_entry_field.png", MATCH_THRESHOLD)
    /\ LET coords == PlLookup(screen, "name_entry_field.png", MATCH_THRESHOLD)
       IN  /\ everyAnchorHit' = (everyAnchorHit /\ coords # None)
           /\ IF coords # None
              THEN /\ ops' = ops \o << <<"click", "name_entry_field.png">>,
                                       <<"type", character_name>> >>
                   /\ clickAt' = coords
                   /\ pc' = "pl_confirm"
                   /\ UNCHANGED rc
              ELSE /\ no_click
                   /\ pc' = "done"
                   /\ rc' = 0
    /\ UNCHANGED <<loginVars, environ, character_name, attempt, poll>>

\* Phase 3: `if character_name:`; one capture; if the name entry field is
\* detected it is clicked and the name typed, and the confirm button is waited
\* for; otherwise main returns 0
pl_main_name_entry(screen) ==
    /\ pc = "pl_name_entry"
    /\ IF character_name # ""
       THEN /\ anyCapture' = TRUE
            /\ lastObs' = ObsAt(pc, screen, "name_entry_field.png", MATCH_THRESHOLD)
            /\ LET coords == PlLookup(screen, "name_entry_field.png", MATCH_THRESHOLD)
               IN  /\ everyAnchorHit' = (everyAnchorHit /\ coords # None)
                   /\ IF coords # None
                      THEN /\ ops' = ops \o << <<"click", "name_entry_field.png">>,
                                               <<"type", character_name>> >>
                           /\ clickAt' = coords
                           /\ pc' = "pl_confirm"
                           /\ UNCHANGED rc
                      ELSE /\ no_click
                           /\ pc' = "done"
                           /\ rc' = 0
       ELSE /\ no_click
            /\ lastObs' = NoObs
            /\ pc' = "done"
            /\ rc' = 0
            /\ UNCHANGED <<anyCapture, everyAnchorHit>>
    /\ UNCHANGED <<loginVars, environ, character_name, attempt, poll>>

\* Return pressed whatever wait_and_click returned
pl_main_confirm_result_always_return ==
    /\ pc = "pl_name_confirmed"
    /\ ops' = Append(ops, <<"key", "Return">>)
    /\ clickAt' = None
    /\ lastObs' = NoObs
    /\ rc' = 0
    /\ pc' = "done"
    /\ UNCHANGED <<loginVars, environ, character_name, attempt, poll,
                   anyCapture, everyAnchorHit>>

\* after wait_and_click("name_confirm_button.png", timeout=5): if it returned
\* False, press_key("Return"); then main returns 0
pl_main_confirm_result ==
    /\ pc = "pl_name_confirmed"
    /\ ops' = IF poll.ret = "True" THEN ops ELSE Append(ops, <<"key", "Return">>)
    /\ clickAt' = None
    /\ lastObs' = NoObs
    /\ rc' = 0
    /\ pc' = "done"
    /\ UNCHANGED <<loginVars, environ, character_name, attempt, poll,
                   anyCapture, everyAnchorHit>>

PlInit ==
    /\ pc = "pl_start"
    /\ rc = -1
    /\ exc = "none"
    /\ configFile = << >>
    /\ CONFIG = << >>
    /\ need_login = "unset"
    /\ select_account_coords = None
    /\ poll = NoPoll
    /\ ops = << >>
    /\ clickAt = None
    /\ anyCapture = FALSE
    /\ anyWindowQuery = FALSE
    /\ rlSeen = FALSE
    /\ probeObs = "unset"
    /\ lastObs = NoObs
    /\ everyAnchorHit = TRUE
    /\ environ \in Environs
    /\ character_name = ""
    /\ attempt = 0
    /\ call = NoCall

PlNext ==
    \/ pl_main_start
    \/ \E screen \in Screens : pl_main_license(screen)
    \/ \E screen \in Screens : pl_wait_and_click(screen, 0)
    \/ \E screen \in Screens : pl_main_lobby(screen)
    \/ \E screen \in Screens : pl_main_name_entry(screen)
    \/ pl_main_confirm_result

SpecPost == PlInit /\ [][PlNext]_vars

(***************************************************************************)
(* One invocation of either script                                         *)
(***************************************************************************)
FlowsInit == Init \/ PlInit
FlowsNext == Next \/ PlNext
SpecFlows == FlowsInit /\ [][FlowsNext]_vars
\* a script that can take a step does take one: nothing but the waits the
\* code itself makes holds it up
SpecFlowsFair == SpecFlows /\ WF_vars(FlowsNext)

(***************************************************************************)
(* The poll loops on their own: one call of wait_and_click (either copy)   *)
(* or of wait_for_window, for every timeout up to MaxTimeout, with device  *)
(* calls that take up to MaxLatency; and one call of                       *)
(* check_template_present (either copy), the lookup without a wait         *)
(***************************************************************************)
PollTimeouts == 0 .. MaxTimeout
PollThresholds == {MATCH_THRESHOLD, 600}

\* check_template_present of bolt_login.py ("no waiting"): one capture taking
\* d, one lookup at the default threshold, and the answer; no click, no sleep
check_template_present(screen, d) ==
    /\ pc = "poll_ctp"
    /\ LET coords == IF screen.ok
                     THEN find_template(screen, poll.name, MATCH_THRESHOLD, FALSE)
                     ELSE None
       IN  poll' = [Captured(poll, screen, d) EXCEPT
                       !.ret = IF coords # None THEN "True" ELSE "False"]
    /\ anyCapture' = TRUE
    /\ lastObs' = ObsAt(pc, screen, poll.name, MATCH_THRESHOLD)
    /\ pc' = "poll_done"
    /\ no_click
    /\ UNCHANGED <<rc, exc, configFile, extra, CONFIG, need_login,
                   select_account_coords, anyWindowQuery, rlSeen, probeObs,
                   everyAnchorHit>>

\* check_template_present of post_launch.py: the same, with its find_template
pl_check_template_present(screen, d) ==
    /\ pc = "poll_pl_ctp"
    /\ LET coords == IF screen.ok
                     THEN pl_find_template(screen, poll.name, MATCH_THRESHOLD, FALSE)
                     ELSE None
       IN  poll' = [Captured(poll, screen, d) EXCEPT
                       !.ret = IF coords # None THEN "True" ELSE "False"]
    /\ anyCapture' = TRUE
    /\ lastObs' = ObsAt(pc, screen, poll.name, MATCH_THRESHOLD)
    /\ pc' = "poll_done"
    /\ no_click
    /\ UNCHANGED <<rc, exc, configFile, extra, CONFIG, need_login,
                   select_account_coords, anyWindowQuery, rlSeen, probeObs,
                   everyAnchorHit>>

PollCalls ==
    { Frame("poll_wac", "play_button.png", t, MATCH_THRESHOLD) : t \in PollTimeouts }
    \cup { Frame(site, name, 0, MATCH_THRESHOLD) :
             site \in {"poll_ctp", "poll_pl_ctp"},
             name \in {"play_button.png", "cloudflare_human_checkbox.png"} }
    \cup { Frame("poll_pl_wac", "runelite_play_button.png", t, th) :
             t \in PollTimeouts, th \in PollThresholds }
    \cup { Frame("poll_wfw", "RuneLite", t, MATCH_THRESHOLD) : t \in PollTimeouts }

PollInit ==
    /\ poll \in PollCalls
    /\ pc = poll.site
    /\ rc = -1
    /\ exc = "none"
    /\ configFile = << >>
    /\ CONFIG = << >>
    /\ need_login = "unset"
    /\ select_account_coords = None
    /\ ops = << >>
    /\ clickAt = None
    /\ anyCapture = FALSE
    /\ anyWindowQuery = FALSE
    /\ rlSeen = FALSE
    /\ probeObs = "unset"
    /\ lastObs = NoObs
    /\ everyAnchorHit = TRUE
    /\ environ = << >>
    /\ character_name = ""
    /\ attempt = 0
    /\ call = NoCall

PollNext ==
    \/ \E screen \in Screens, d \in Latencies : wait_and_click(screen, d)
    \/ \E screen \in Screens, d \in Latencies : pl_wait_and_click(screen, d)
    \/ \E answer \in WindowAnswers, d \in Latencies : wait_for_window(answer, d)
    \/ \E screen \in Screens, d \in Latencies : check_template_present(screen, d)
    \/ \E screen \in Screens, d \in Latencies : pl_check_template_present(screen, d)

SpecPoll == PollInit /\ [][PollNext]_vars

(***************************************************************************)
(* The helpers on their own: one call of click_random_within, or of        *)
(* find_template, of either script, with its arguments drawn from bounded  *)
(* sets                                                                    *)
(***************************************************************************)
\* rectangles have sides 1..MaxSide
MaxSide == 14
Scripts == {"bolt_login", "post_launch"}

\* the variables a helper called on its own leaves alone
flowVars == <<rc, exc, configFile, CONFIG, need_login, select_account_coords,
              poll, anyCapture, anyWindowQuery, rlSeen, probeObs, lastObs,
              everyAnchorHit, environ, character_name, attempt>>

HelperInit ==
    /\ rc = -1
    /\ exc = "none"
    /\ configFile = << >>
    /\ CONFIG = << >>
    /\ need_login = "unset"
    /\ select_account_coords = None
    /\ poll = NoPoll
    /\ ops = << >>
    /\ clickAt = None
    /\ anyCapture = FALSE
    /\ anyWindowQuery = FALSE
    /\ rlSeen = FALSE
    /\ probeObs = "unset"
    /\ lastObs = NoObs
    /\ everyAnchorHit = TRUE
    /\ environ = << >>
    /\ character_name = ""
    /\ attempt = 0

ClickCalls ==
    [fn : {"click_random_within"}, script : Scripts, x : {0, 100}, y : {50},
     width : 1..MaxSide, height : 1..MaxSide]

ClickInit ==
    /\ HelperInit
    /\ call \in ClickCalls
    /\ pc = "click_random_within"

\* click_random_within(x, y, width, height) of bolt_login.py
call_click_random_within ==
    /\ pc = "click_random_within"
    /\ call.script = "bolt_login"
    /\ click_random_within(call.x, call.y, call.width, call.height, "box")
    /\ pc' = "clicked"
    /\ UNCHANGED <<flowVars, call>>

\* click_random_within(x, y, width, height) of post_launch.py
call_pl_click_random_within ==
    /\ pc = "click_random_within"
    /\ call.script = "post_launch"
    /\ pl_click_random_within(call.x, call.y, call.width, call.height, "box")
    /\ pc' = "clicked"
    /\ UNCHANGED <<flowVars, call>>

ClickNext == call_click_random_within \/ call_pl_click_random_within

SpecClick == ClickInit /\ [][ClickNext]_vars

MatchThresholds == {CloudflareThreshold, LobbyThreshold, MATCH_THRESHOLD}

MatchCalls ==
    [fn : {"find_template"}, script : Scripts, screen : Frames,
     template_name : {"cloudflare_human_checkbox.png", "play_button.png"},
     threshold : MatchThresholds, return_bounds : BOOLEAN, result : {None}]

MatchInit ==
    /\ HelperInit
    /\ call \in MatchCalls
    /\ pc = "find_template"

\* find_template(screen, template_name, threshold, return_bounds) of bolt_login.py
call_find_template ==
    /\ pc = "find_template"
    /\ call.script = "bolt_login"
    /\ call' = [call EXCEPT !.result =
                    find_template(call.screen, call.template_name,
                                  call.threshold, call.return_bounds)]
    /\ pc' = "matched"
    /\ UNCHANGED <<flowVars, ops, clickAt>>

\* find_template(screen, template_name, threshold, return_bounds) of post_launch.py
call_pl_find_template ==
    /\ pc = "find_template"
    /\ call.script = "post_launch"
    /\ call' = [call EXCEPT !.result =
                    pl_find_template(call.screen, call.template_name,
                                     call.threshold, call.return_bounds)]
    /\ pc' = "matched"
    /\ UNCHANGED <<flowVars, ops, clickAt>>

MatchNext == call_find_template \/ call_pl_find_template

SpecMatch == MatchInit /\ [][MatchNext]_vars

(***************************************************************************)
(* The two copies of wait_and_click side by side: called with the same     *)
(* template and timeout, the post-launch one with its default threshold,   *)
(* and given the same capture in every cycle.  Each copy is the function   *)
(* from its frame and the capture to its next frame; log is the sequence   *)
(* of captures, sleeps and clicks it has made                              *)
(***************************************************************************)
\* one evaluation of the loop test of bolt_login.wait_and_click with its body;
\* the capture and lookup take d, and click_at, when it is called, takes c
wac_cycle(f, screen, d, c) ==
    IF ~LoopTest(f) THEN [f EXCEPT !.ret = "False"]
    ELSE LET coords == IF screen.ok
                       THEN find_template(screen, f.name, MATCH_THRESHOLD, FALSE)
                       ELSE None
         IN  IF coords # None
             THEN [Captured(f, screen, d) EXCEPT
                       !.clicks = @ + 1, !.found = coords, !.wall = @ + c,
                       !.ret = "True"]
             ELSE Slept(Captured(f, screen, d))

\* one evaluation of the loop test of post_launch.wait_and_click with its body
pl_wac_cycle(f, screen, d, c) ==
    IF ~LoopTest(f) THEN [f EXCEPT !.ret = "False"]
    ELSE LET coords == IF screen.ok
                       THEN pl_find_template(screen, f.name, f.threshold, FALSE)
                       ELSE None
         IN  IF coords # None
             THEN [Captured(f, screen, d) EXCEPT
                       !.clicks = @ + 1, !.found = coords, !.wall = @ + c,
                       !.ret = "True"]
             ELSE Slept(Captured(f, screen, d))

\* the events of the cycle that led from frame f to frame g
CycleEvents(f, g) ==
    (IF g.captures > f.captures THEN << <<"capture">> >> ELSE << >>)
    \o (IF g.clicks > f.clicks THEN << <<"click", g.found>> >> ELSE << >>)
    \o (IF g.sleeps > f.sleeps THEN << <<"sleep">> >> ELSE << >>)

\* a copy that has returned makes no further cycle
NextFrame(f, g) == IF f.ret = "running" THEN g ELSE f

\* the timeouts of the calls: those with no cycle, and the least and the
\* greatest with one, two and three cycles
EquivTimeouts ==
    {0, 1, POLL_INTERVAL, POLL_INTERVAL + 1, 2 * POLL_INTERVAL,
     2 * POLL_INTERVAL + 1, MaxTimeout}

EquivInit ==
    /\ HelperInit
    /\ pc = "both_wait_and_click"
    /\ \E name \in {"play_button.png", "cloudflare_human_checkbox.png"},
          timeout \in EquivTimeouts :
          call = [fn |-> "wait_and_click",
                  login |-> Frame("poll_wac", name, timeout, MATCH_THRESHOLD),
                  post |-> Frame("poll_pl_wac", name, timeout, MATCH_THRESHOLD),
                  login_log |-> << >>, post_log |-> << >>]

\* one cycle of each copy that is still running, on the same capture; the
\* click of each copy takes its own time (c1, c2)
both_wait_and_click(screen, d, c1, c2) ==
    /\ pc = "both_wait_and_click"
    /\ call.login.ret = "running" \/ call.post.ret = "running"
    /\ LET l == NextFrame(call.login, wac_cycle(call.login, screen, d, c1))
           p == NextFrame(call.post, pl_wac_cycle(call.post, screen, d, c2))
       IN  call' = [call EXCEPT
                       !.login = l, !.post = p,
                       !.login_log = @ \o CycleEvents(call.login, l),
                       !.post_log = @ \o CycleEvents(call.post, p)]
    /\ UNCHANGED <<pc, flowVars, ops, clickAt>>

\* some copy that is still running clicks in its cycle on this capture
SomeCopyClicks(screen) ==
    \/ NextFrame(call.login, wac_cycle(call.login, screen, 0, 0)).clicks
           > call.login.clicks
    \/ NextFrame(call.post, pl_wac_cycle(call.post, screen, 0, 0)).clicks
           > call.post.clicks

\* every capture, latency and pair of click times; a cycle that does not click
\* is the same step whatever c1 and c2, and is taken once
EquivNext ==
    \E screen \in Screens, d \in Latencies :
        IF SomeCopyClicks(screen)
        THEN \E c1 \in ClickTimes, c2 \in ClickTimes :
                 both_wait_and_click(screen, d, c1, c2)
        ELSE both_wait_and_click(screen, d, 2, 2)

SpecEquiv == EquivInit /\ [][EquivNext]_vars

(***************************************************************************)
(* click_at on its own: human_move_mouse from wherever the pointer is,     *)
(* then the click.  The waypoint loop is one action.  Its waypoints are    *)
(* int() of cubic Bezier values whose two control points carry four random *)
(* offsets (random.randint(-50, 50) and random.randint(-30, 30)); the      *)
(* points in between are not kept in the state, only their number and      *)
(* where the last one leaves the pointer: the loop's last waypoint has     *)
(* t = 1, where the Bezier value is 0 * p0 + 0 * p1 + 0 * p2 + 1 * p3, the *)
(* target, whatever the control points are                                 *)
(***************************************************************************)
\* where xdotool getmouselocation may report the pointer
MousePositions ==
    {<<0, 0>>, <<100, 50>>, <<960, 540>>, <<1000, 550>>, <<1919, 1079>>}

\* what xdotool getmouselocation answers: a position, or output that does not parse
MouseAnswers ==
    [ok : {TRUE}, pos : MousePositions] \cup {[ok |-> FALSE, pos |-> <<0, 0>>]}

\* the points click_at is called with
MouseTargets ==
    {<<0, 0>>, <<100, 50>>, <<106, 55>>, <<960, 540>>, <<960, 730>>,
     <<1919, 0>>, <<0, 1079>>, <<1919, 1079>>}

\* get_mouse_position: the parsed position, or (960, 540) on any exception
get_mouse_position(answer) == IF answer.ok THEN answer.pos ELSE <<960, 540>>

\* int(distance / 15) for distance = sqrt(d2)
Div15(d2) ==
    CHOOSE k \in 0 .. (IF d2 \div 225 < 3000 THEN (d2 \div 225) + 1 ELSE 3000) :
        (15 * k) * (15 * k) <= d2 /\ d2 < (15 * (k + 1)) * (15 * (k + 1))

\* steps = max(10, int(distance / 15))
StepsOf(start, target) ==
    Max(10, Div15((target[1] - start[1]) * (target[1] - start[1])
                  + (target[2] - start[2]) * (target[2] - start[2])))

\* t = i / steps; t = t * t * (3 - 2 * t), as the fraction <<numerator, denominator>>
Smoothstep(i, steps) ==
    <<i * i * (3 * steps - 2 * i), steps * steps * steps>>

\* the waypoint of the loop's last iteration, i = steps: t is 1, and
\* bezier_curve(1, p0, p1, p2, p3) is p3 in either coordinate
LastWaypoint(target, steps) ==
    IF Smoothstep(steps, steps)[1] = Smoothstep(steps, steps)[2]
    THEN target ELSE None

MouseInit ==
    /\ HelperInit
    /\ pc = "click_at"
    /\ call \in [fn : {"click_at"}, target : MouseTargets, start : {None},
                  steps : {0}, i : {0}, pointer : {None}, last_move : {"none"},
                  moves : {0}, clicks : {0}]

\* start_x, start_y = get_mouse_position(); cp1, cp2 = ...; steps = ...
\* (the control points are used by the waypoints between the first and the
\* last only, which the state does not keep)
human_move_mouse_begin(answer) ==
    /\ pc = "click_at"
    /\ call' = [call EXCEPT !.start = get_mouse_position(answer),
                            !.steps = StepsOf(get_mouse_position(answer), call.target),
                            !.i = 0]
    /\ pc' = "move_loop"
    /\ UNCHANGED <<flowVars, ops, clickAt>>

\* `for i in range(steps + 1)`: steps + 1 times xdotool mousemove x y, the
\* last of them to the waypoint of i = steps
human_move_mouse_loop ==
    /\ pc = "move_loop"
    /\ call.i = 0
    /\ call' = [call EXCEPT !.pointer = LastWaypoint(call.target, call.steps),
                            !.last_move = "waypoint",
                            !.moves = @ + call.steps + 1,
                            !.i = call.steps + 1]
    /\ UNCHANGED <<pc, flowVars, ops, clickAt>>

\* the loop left without the final move
human_move_mouse_no_final ==
    /\ pc = "move_loop"
    /\ call.i = call.steps + 1
    /\ pc' = "click"
    /\ UNCHANGED <<call, flowVars, ops, clickAt>>

\* after the loop: xdotool mousemove target_x target_y
human_move_mouse_final ==
    /\ pc = "move_loop"
    /\ call.i = call.steps + 1
    /\ call' = [call EXCEPT !.pointer = call.target, !.last_move = "final",
                            !.moves = @ + 1]
    /\ pc' = "click"
    /\ UNCHANGED <<flowVars, ops, clickAt>>

\* click_at after human_move_mouse: xdotool click 1, where the pointer is
click_at_click ==
    /\ pc = "click"
    /\ call' = [call EXCEPT !.clicks = @ + 1]
    /\ ops' = Append(ops, <<"click", "1">>)
    /\ clickAt' = call.pointer
    /\ pc' = "clicked_at"
    /\ UNCHANGED flowVars

MouseNext ==
    \/ \E answer \in MouseAnswers : human_move_mouse_begin(answer)
    \/ human_move_mouse_loop
    \/ human_move_mouse_final
    \/ click_at_click

SpecMouse == MouseInit /\ [][MouseNext]_vars

(***************************************************************************)
(* Properties of the login flow (checked under Spec)                       *)
(***************************************************************************)
Has(op) == \E i \in 1..Len(ops) : ops[i] = op
Count(op) == Cardinality({i \in 1..Len(ops) : ops[i] = op})
IsPrefix(a, b) == Len(a) <= Len(b) /\ SubSeq(b, 1, Len(a)) = a
Terminated == pc = "done" /\ ~ENABLED Next

FullSteps == {"step1_dismiss", "step2_login", "step3_cloudflare", "step4_email",
              "step4_error_check", "step5_password", "step6_2fa", "step6a_auth",
              "step6_totp"}
PersistedSteps == {"p2_select_account", "p3_user_dropdown", "p4_select_user",
                   "p5_minimize"}
FullTemplates == {"i_understand_button.png", "login_button.png",
                  "cloudflare_human_checkbox.png", "login_authenticator_app_button.png"}
PersistedTemplates == {"select_account_button.png", "user_select_label.png",
                       "user_select_header.png"}
\* an operation that belongs to the FullLogin path only
FullOp(op) ==
    \/ op[1] \in {"type", "oathtool"}
    \/ op[1] = "click" /\ op[2] \in FullTemplates

\* C1: once the launcher window is found, the FullLogin steps run exactly when
\* the disclaimer probe met an accepted match.  After a probe without a match
\* the flow is on the PersistedSession path: it is at no FullLogin step and has
\* typed nothing (no identifier, no credential, no code) and has not called the
\* code generator.  After a probe with a match it is at no PersistedSession
\* step, has clicked no PersistedSession control, and has typed the identifier
\* as soon as it is past Step 4.
C1_ForkOnProbe ==
    /\ (pc \in FullSteps => probeObs = "match")
    /\ (pc \in PersistedSteps => probeObs = "no_match")
    /\ (probeObs = "no_match" =>
            /\ pc \notin FullSteps
            /\ \A i \in 1..Len(ops) : ~FullOp(ops[i])
            /\ ~Has(<<"type", CONFIG["username"]>>)
            /\ ~Has(<<"type", CONFIG["password"]>>)
            /\ \A r \in TotpResults : ~Has(<<"oathtool", r>>)
            /\ ~Has(<<"type", TotpCode>>))
    /\ (probeObs = "match" =>
            /\ pc \notin PersistedSteps
            /\ \A i \in 1..Len(ops) :
                   ~(ops[i][1] = "click" /\ ops[i][2] \in PersistedTemplates)
            /\ (pc \notin {"step1_dismiss", "step2_login", "step3_cloudflare",
                           "step4_email"}
                    => Count(<<"type", CONFIG["username"]>>) = 1))
    /\ (probeObs = "unset" => ops = << >>)

\* a run on the PersistedSession path has gone through to the end
C1_Witness ==
    /\ probeObs = "no_match"
    /\ pc = "done"
    /\ rc = 0
    /\ Has(<<"click", "select_account_button.png">>)

\* C2: when the check after the submission of the identifier detects the "page
\* failed to open" anchor, the flow has returned 1 and attempts nothing more:
\* the last events are the identifier and its Return, and no step is enabled
C2_ErrorBannerAborts ==
    (lastObs.site = "step4_error_check" /\ lastObs.obs = "match") =>
        /\ rc = 1
        /\ Terminated
        /\ Len(ops) >= 2
        /\ ops[Len(ops) - 1] = <<"type", CONFIG["username"]>>
        /\ ops[Len(ops)] = <<"key", "Return">>
        /\ ~Has(<<"type", CONFIG["password"]>>)
        /\ clickAt = None

C2_Witness ==
    /\ lastObs.site = "step4_error_check"
    /\ lastObs.obs = "match"
    /\ pc = "done"

\* C3: with a field lacking in the configuration record, the process has ended
\* with a failure (KeyError, status 1) as soon as it has started, and no window
\* query, no capture and no input event was made
C3_MissingFieldAbortsFirst ==
    (DOMAIN configFile # Fields /\ pc # "load_config") =>
        /\ rc = 1
        /\ exc = "KeyError"
        /\ Terminated
        /\ ~anyWindowQuery
        /\ ~anyCapture
        /\ ops = << >>
        /\ poll = NoPoll

C3_Witness ==
    /\ DOMAIN configFile # Fields
    /\ pc = "done"
    /\ exc = "KeyError"

\* C4: a run that ends in the post-play wait returns 0 if the wait observed the
\* successor window and 1 if all its queries (timeout 300 s, one per 0.5 s) saw
\* none; a run returns 0 only if some query observed the successor window
C4_ResultOfPostPlayWait ==
    /\ (pc = "done" /\ rc = 0 => rlSeen)
    /\ (pc = "maximize" => rlSeen /\ poll.site = "wait_runelite" /\ poll.ret = "True")
    /\ (pc = "done" /\ poll.site = "wait_runelite" =>
            /\ poll.ret \in {"True", "False"}
            /\ (poll.ret = "True" => rc = 0 /\ rlSeen)
            /\ (poll.ret = "False" =>
                    /\ rc = 1
                    /\ ~rlSeen
                    /\ poll.queries * POLL_INTERVAL = 3000
                    /\ poll.sleeps = poll.queries))
    /\ (pc = "wait_runelite" => rc = -1 /\ ~rlSeen)

\* the wait ran out: the successor window never appeared
C4_Witness ==
    /\ pc = "done"
    /\ poll.site = "wait_runelite"
    /\ poll.ret = "False"
    /\ rc = 1

\* C5: if the query made at the start (after the configuration was loaded)
\* observes the successor window, the flow has returned 0 and is over: no wait
\* for the launcher window was begun, nothing was captured, no input was made
C5_AlreadyRunningSkipsFlow ==
    (rlSeen /\ poll = NoPoll) =>
        /\ rc = 0
        /\ Terminated
        /\ ~anyCapture
        /\ ops = << >>
        /\ need_login = "unset"

C5_Witness ==
    /\ rlSeen
    /\ poll = NoPoll
    /\ pc = "done"
    /\ anyWindowQuery

HappyOps ==
    << <<"click", "i_understand_button.png">>,
       <<"click", "login_button.png">>,
       <<"click", "cloudflare_human_checkbox.png">>,
       <<"type", "alice@example.com">>, <<"key", "Return">>,
       <<"type", "hunter2">>, <<"key", "Return">>,
       <<"click", "login_authenticator_app_button.png">>,
       <<"oathtool", "ok">>,
       <<"type", TotpCode>>, <<"key", "Return">>,
       <<"click", "character_select_label.png">>,
       <<"click", "character_select_header.png">>,
       <<"click", "play_button.png">> >>

\* the disclaimer probe matched, every anchor looked up since was detected (in
\* a capture that succeeded), a second-factor secret is configured and the code
\* generator has not failed
HappyCase ==
    /\ probeObs = "match"
    /\ everyAnchorHit
    /\ CONFIG["totpSecret"] # ""
    /\ \A r \in TotpResults \ {"ok"} : ~Has(<<"oathtool", r>>)

\* C6: in the happy case the events of the run are, at every moment, a prefix
\* of: dismiss disclaimer, click login, (challenge checkbox,) identifier and
\* Return, credential and Return, authenticator entry, generated code and
\* Return, character dropdown and entry, play; and a run that has ended without
\* the error banner and with the successor window observed has made all of
\* them, in this order, and returned 0
C6_HappyPathOrder ==
    HappyCase =>
        /\ IsPrefix(ops, HappyOps)
        /\ (pc \in {"wait_runelite", "maximize"} => ops = HappyOps)
        /\ (pc = "done" /\ rlSeen /\ lastObs.site # "step4_error_check" =>
                rc = 0 /\ ops = HappyOps)

C6_Witness ==
    /\ HappyCase
    /\ pc = "done"
    /\ rc = 0
    /\ rlSeen
    /\ ops = HappyOps

\* the record carries no second-factor secret: the field is missing, or empty
NoSecret ==
    /\ (Fields \ {"totpSecret"}) \subseteq DOMAIN configFile
    /\ ("totpSecret" \notin DOMAIN configFile \/ configFile["totpSecret"] = "")

\* C11 (as claimed): with no second-factor secret in the configuration, whether
\* the field is missing or empty, startup does not fail (loading the record
\* raises nothing, and the flow goes on to its window queries), and the flow is
\* never at the second-factor sub-step: no authenticator click, no code
\* generated or typed
C11_SecretOptional ==
    NoSecret =>
        /\ exc # "KeyError"
        /\ (pc = "done" => anyWindowQuery)
        /\ pc \notin {"step6a_auth", "step6_totp"}
        /\ ~Has(<<"click", "login_authenticator_app_button.png">>)
        /\ \A r \in TotpResults : ~Has(<<"oathtool", r>>)
        /\ ~Has(<<"type", TotpCode>>)

\* the code generator has failed: it exited non-zero, or could not be run
TotpFailed == \E r \in TotpResults \ {"ok"} : Has(<<"oathtool", r>>)

\* C12: when the code generator has failed, the flow has ended with status 1
\* (returned by main after CalledProcessError, or the status of the process
\* that any other exception ends): the failure is the last event (no code
\* typed, no Return pressed after it), the generator was called once, no
\* character-selection or play control was clicked and the post-play wait was
\* not begun; it can fail only on the FullLogin path with a secret
C12_TotpFailureAborts ==
    TotpFailed =>
        /\ rc = 1
        /\ Terminated
        /\ ops[Len(ops)][1] = "oathtool"
        /\ ops[Len(ops)][2] \in TotpResults \ {"ok"}
        /\ (exc = "none") = (ops[Len(ops)][2] = "CalledProcessError")
        /\ \A i \in 1..(Len(ops) - 1) : ops[i][1] # "oathtool"
        /\ ~Has(<<"type", TotpCode>>)
        /\ ~Has(<<"click", "character_select_label.png">>)
        /\ ~Has(<<"click", "character_select_header.png">>)
        /\ ~Has(<<"click", "play_button.png">>)
        /\ poll.site = "step6a_auth"
        /\ ~rlSeen
        /\ probeObs = "match"
        /\ CONFIG["totpSecret"] # ""

C12_Witness ==
    /\ Has(<<"oathtool", "FileNotFoundError">>)
    /\ exc = "FileNotFoundError"
    /\ rc = 1
    /\ pc = "done"
    /\ Has(<<"type", CONFIG["password"]>>)

\* C13: when the wait for the launcher window has run out (the successor
\* window was not there at the start, and 120 queries, one per 0.5 s for 60 s,
\* saw no launcher window), the flow has returned 1 and is over, and it has
\* made no capture and no input event; nor does it make any while it waits
C13_LauncherTimeoutAborts ==
    /\ (pc = "wait_bolt" => ~anyCapture /\ ops = << >> /\ rc = -1 /\ ~rlSeen)
    /\ (poll.site = "wait_bolt" /\ poll.ret = "False" =>
            /\ rc = 1
            /\ Terminated
            /\ ~rlSeen
            /\ ~anyCapture
            /\ ops = << >>
            /\ need_login = "unset"
            /\ poll.queries * POLL_INTERVAL = 600
            /\ poll.sleeps = poll.queries)

C13_Witness ==
    /\ poll.site = "wait_bolt"
    /\ poll.ret = "False"
    /\ pc = "done"
    /\ anyWindowQuery

(***************************************************************************)
(* Properties of the poll loops (checked under SpecPoll)                   *)
(***************************************************************************)
WacCall == poll.site \in {"poll_wac", "poll_pl_wac"}
PollEnded == pc = "poll_done" /\ ~ENABLED PollNext

\* the centre find_template reports for a match whose top-left corner is loc
CentreOf(loc, template_name) ==
    <<loc[1] + TemplateShape(template_name)[1] \div 2,
      loc[2] + TemplateShape(template_name)[2] \div 2>>

\* C7: a wait-and-click call returns True in the first cycle that detects the
\* template: a detection ends the call in its own cycle, after k sleeps with
\* k * interval < timeout, with one more capture than sleeps (none follows the
\* click), with exactly one click, at the centre of the detected match; while
\* the call runs and when it returns False it has clicked nothing
C7_ClickOnFirstDetection ==
    WacCall =>
        /\ (lastObs.obs = "match" => poll.ret = "True")
        /\ (poll.ret = "running" =>
                poll.clicks = 0 /\ ops = << >> /\ poll.captures = poll.sleeps)
        /\ (poll.ret = "True" =>
                /\ PollEnded
                /\ lastObs.obs = "match"
                /\ poll.clicks = 1
                /\ ops = << <<"click", poll.name>> >>
                /\ clickAt = CentreOf(lastObs.loc, poll.name)
                /\ poll.found = clickAt
                /\ poll.captures = poll.sleeps + 1
                /\ poll.elapsed = poll.sleeps * POLL_INTERVAL
                /\ poll.sleeps * POLL_INTERVAL < poll.timeout)
        /\ (poll.ret = "False" =>
                /\ PollEnded
                /\ poll.clicks = 0
                /\ ops = << >>
                /\ clickAt = None
                /\ poll.captures = poll.sleeps)

\* the template was detected after two polls without a detection
C7_Witness ==
    /\ WacCall
    /\ poll.ret = "True"
    /\ poll.sleeps = 2
    /\ poll.captures = 3
    /\ ops = << <<"click", poll.name>> >>

\* C8 (as claimed): the time really spent in a poll call, device calls
\* included, is at most timeout plus one interval when the call returns
C8_ElapsedWithinTimeoutPlusInterval ==
    (poll.site \in {"poll_wac", "poll_pl_wac", "poll_wfw"}
         /\ poll.ret \in {"True", "False"})
        => poll.wall <= poll.timeout + POLL_INTERVAL

\* C9 (as claimed): once a lookup of a wait-and-click call has met a missing or
\* undecodable asset, the call makes no further capture and does not end in
\* the "not found" result False
C9_AssetErrorEndsStep ==
    [][(WacCall /\ poll.asset_error) =>
           (poll'.captures = poll.captures /\ poll'.ret # "False")]_vars

\* C10: a cycle of wait-and-click whose capture failed has clicked nothing and
\* ended nothing: the call is still running, has slept after the capture, and
\* a further step of the loop is enabled; a detection in a later cycle returns
\* True with its click; a call in which no capture succeeded returns False,
\* without a click and without an exception
C10_CaptureFailureIsTransient ==
    WacCall =>
        /\ (lastObs.obs = "capture_failed" =>
                /\ poll.cap_failed
                /\ clickAt = None
                /\ ops = << >>
                /\ poll.ret = "running"
                /\ pc = poll.site
                /\ poll.sleeps = poll.captures
                /\ ENABLED PollNext)
        /\ (poll.cap_failed /\ lastObs.obs = "match" =>
                poll.ret = "True" /\ poll.clicks = 1 /\ clickAt # None)
        /\ (poll.ret # "running" /\ ~poll.cap_ok =>
                poll.ret = "False" /\ poll.clicks = 0)
        /\ rc = -1
        /\ exc = "none"

\* a capture failed, and a later cycle of the same call found and clicked
C10_Witness ==
    /\ WacCall
    /\ poll.cap_failed
    /\ poll.ret = "True"
    /\ poll.clicks = 1

(***************************************************************************)
(* Properties of the flows (checked under SpecFlows and SpecFlowsFair)     *)
(***************************************************************************)
\* C14: on the PersistedSession path every sub-step, whatever its capture and
\* its lookup gave, hands over to the next one in order (account selector,
\* user dropdown with its poll loop, user list, second click on the account
\* selector, character selection) without a result and without an exception;
\* and a run that has entered the path does reach character selection
C14_PersistedBestEffort ==
    /\ [][ /\ (pc = "p2_select_account" => pc' = "p3_user_dropdown")
           /\ (pc = "p3_user_dropdown" =>
                   pc' \in {"p3_user_dropdown", "p4_select_user"})
           /\ (pc = "p4_select_user" => pc' = "p5_minimize")
           /\ (pc = "p5_minimize" => pc' = "step7_char_dropdown")
           /\ (pc \in PersistedSteps => rc' = -1 /\ exc' = "none") ]_vars
    /\ ((pc = "p2_select_account") ~> (pc = "step7_char_dropdown"))

\* the path was gone through without one anchor detected
C14_Witness ==
    /\ pc = "step7_char_dropdown"
    /\ probeObs = "no_match"
    /\ ops = << >>
    /\ poll.site = "p3_user_dropdown"
    /\ poll.ret = "False"
    /\ poll.cap_failed

\* the steps of the two scripts, each script's in the order of its text
LoginOrder ==
    << "load_config", "check_running", "wait_bolt", "step1_probe",
       "step1_dismiss", "step2_login", "step3_cloudflare", "step4_email",
       "step4_error_check", "step5_password", "step6_2fa", "step6a_auth",
       "step6_totp", "p2_select_account", "p3_user_dropdown", "p4_select_user",
       "p5_minimize", "step7_char_dropdown", "step7a_select_char", "step8_play",
       "wait_runelite", "maximize", "done" >>
PostOrder ==
    << "pl_start", "pl_license", "pl_play", "pl_lobby", "pl_name_entry",
       "pl_confirm", "pl_name_confirmed", "done" >>
Rank(order, step) == CHOOSE i \in 1..Len(order) : order[i] = step
InOrder(order, step) == \E i \in 1..Len(order) : order[i] = step
\* the steps that have a loop of their own
LoopSteps == WacSites \cup WfwSites \cup PlWacSites \cup {"pl_lobby"}

\* C15: every step of a run leads to a later step of the same script or, in a
\* step that has a loop of its own, stays in that step; so no step is entered
\* twice and nothing is begun again; and once a script has returned, with
\* whatever result, nothing more happens
C15_NoStepRevisited ==
    [][ /\ pc # "done"
        /\ (pc' = pc => pc \in LoopSteps)
        /\ (pc' # pc =>
               \/ /\ InOrder(LoginOrder, pc) /\ InOrder(LoginOrder, pc')
                  /\ Rank(LoginOrder, pc') > Rank(LoginOrder, pc)
               \/ /\ InOrder(PostOrder, pc) /\ InOrder(PostOrder, pc')
                  /\ Rank(PostOrder, pc') > Rank(PostOrder, pc)) ]_vars

\* the login button was polled for through the whole of its loop, and the
\* flow went on to the next step
C15_Witness ==
    /\ pc = "step3_cloudflare"
    /\ poll.site = "step2_login"
    /\ poll.ret = "False"
    /\ poll.captures = 20

\* C20: every run of either script ends with a result, whatever the captures
\* show and the window queries answer.  No loop goes on beyond its bound: a
\* poll loop's counter is the number of its sleeps times the interval and
\* stays below timeout + interval, it makes at most one capture or query more
\* than it sleeps, and the lobby loop makes at most 6 attempts
C20_EveryRunTerminates ==
    /\ [](/\ poll.elapsed = poll.sleeps * POLL_INTERVAL
          /\ poll.elapsed < poll.timeout + POLL_INTERVAL
          /\ poll.captures + poll.queries <= poll.sleeps + 1
          /\ attempt <= LobbyAttempts)
    /\ <>(pc = "done" /\ rc \in {0, 1})

\* a post-launch run in which the lobby loop and the last wait both ran out
C20_Witness ==
    /\ pc = "done"
    /\ poll.site = "pl_confirm"
    /\ poll.ret = "False"
    /\ poll.captures = 10
    /\ attempt = LobbyAttempts

(***************************************************************************)
(* Properties of the post-launch flow (checked under SpecPost)             *)
(***************************************************************************)
LobbyClicks == Count(<<"click", "lobby_click_to_play.png">>)
AfterLobby == {"pl_name_entry", "pl_confirm", "pl_name_confirmed", "done"}

\* C16: the lobby step makes at most 6 attempts; the attempt that detects
\* the anchor clicks it (once, at its centre) and ends the step; an attempt
\* that does not detect it clicks nothing and, unless it was the sixth, is
\* followed by another; so the step has clicked once if some attempt detected
\* the anchor, and not at all after 6 attempts without a detection, and then
\* the flow is at the name-entry phase without a failure
C16_LobbyBoundedRetry ==
    /\ attempt \in 0..LobbyAttempts
    /\ LobbyClicks <= 1
    /\ rc # 1 /\ exc = "none"
    /\ (pc \in {"pl_start", "pl_license", "pl_play"} =>
            attempt = 0 /\ LobbyClicks = 0)
    /\ (pc = "pl_lobby" => attempt < LobbyAttempts /\ LobbyClicks = 0)
    /\ (lastObs.site = "pl_lobby" =>
            IF lastObs.obs = "match"
            THEN /\ pc = "pl_name_entry"
                 /\ LobbyClicks = 1
                 /\ ops[Len(ops)] = <<"click", "lobby_click_to_play.png">>
                 /\ clickAt = CentreOf(lastObs.loc, "lobby_click_to_play.png")
            ELSE /\ LobbyClicks = 0
                 /\ clickAt = None
                 /\ (pc = "pl_name_entry" <=> attempt = LobbyAttempts)
                 /\ (pc = "pl_lobby" <=> attempt < LobbyAttempts))
    /\ (pc \in AfterLobby =>
            \/ LobbyClicks = 1 /\ attempt \in 1..LobbyAttempts
            \/ LobbyClicks = 0 /\ attempt = LobbyAttempts)

\* six attempts without a detection, and the flow went on and returned 0
C16_Witness ==
    /\ attempt = LobbyAttempts
    /\ LobbyClicks = 0
    /\ pc = "done"
    /\ rc = 0

\* no display name was supplied: CHARACTER_NAME is unset or empty
NoName == "CHARACTER_NAME" \notin DOMAIN environ \/ environ["CHARACTER_NAME"] = ""
\* an event of the name-entry phase
NameOp(op) ==
    \/ op[1] \in {"type", "key"}
    \/ op[1] = "click" /\ op[2] \in {"name_entry_field.png", "name_confirm_button.png"}
Typed == Cardinality({i \in 1..Len(ops) : ops[i][1] = "type"})

\* C17: without a display name the name-entry phase makes no capture and no
\* event (no click on its anchors, nothing typed, no key) and the flow
\* returns 0; with a display name, the only text ever typed is the name, it
\* is typed when and only when the capture of the phase detects the
\* name-entry field, and not more than once
C17_NameEntryConditional ==
    /\ (pc = "done" => rc = 0)
    /\ (NoName =>
            /\ \A i \in 1..Len(ops) : ~NameOp(ops[i])
            /\ lastObs.site \notin {"pl_name_entry", "pl_confirm"}
            /\ pc \notin {"pl_confirm", "pl_name_confirmed"}
            /\ poll.site # "pl_confirm")
    /\ (~NoName =>
            /\ Typed <= 1
            /\ Typed = Count(<<"type", environ["CHARACTER_NAME"]>>)
            /\ (Typed = 1 <=> (pc \in {"pl_confirm", "pl_name_confirmed"}
                                \/ (pc = "done" /\ poll.site = "pl_confirm")))
            /\ (lastObs.site = "pl_name_entry" =>
                    (lastObs.obs = "match" <=> Typed = 1)))

\* the flow ran to its end without a display name
C17_Witness ==
    /\ NoName
    /\ pc = "done"
    /\ rc = 0
    /\ attempt >= 1

(***************************************************************************)
(* Properties of the helpers (checked under SpecClick and SpecMatch)       *)
(***************************************************************************)
\* C18: for a rectangle whose width and height are at least 2*margin + 1, the
\* point click_random_within (of either script) clicks lies in
\* [x + margin, x + width - margin] x [y + margin, y + height - margin]
C18_BoundedClickInsideMargins ==
    (pc = "clicked" /\ call.width >= 2 * margin + 1 /\ call.height >= 2 * margin + 1) =>
        /\ clickAt[1] \in (call.x + margin) .. (call.x + call.width - margin)
        /\ clickAt[2] \in (call.y + margin) .. (call.y + call.height - margin)
        /\ ops = << <<"click", "box">> >>

\* the narrowest rectangle of the claim, clicked at its far corner
C18_Witness ==
    /\ pc = "clicked"
    /\ call.width = 2 * margin + 1
    /\ call.height = 2 * margin + 1
    /\ clickAt = <<call.x + call.width - margin, call.y + call.height - margin>>

\* C19: when the template asset decodes, so that there is a best score,
\* find_template (of either script) reports a match exactly when the best
\* score is at least the threshold of the call, equality included; what it
\* reports is one value: (left + w div 2, top + h div 2) of the best match
\* or, with return_bounds, (left, top, w, h); otherwise it reports None
C19_AcceptIffScoreAtLeastThreshold ==
    (pc = "matched" /\ call.screen.template_ok) =>
        LET w == TemplateShape(call.template_name)[1]
            h == TemplateShape(call.template_name)[2]
            left == call.screen.max_loc[1]
            top == call.screen.max_loc[2]
        IN  /\ (call.result # None <=> call.screen.max_val >= call.threshold)
            /\ (call.screen.max_val >= call.threshold =>
                    call.result = IF call.return_bounds
                                  THEN <<left, top, w, h>>
                                  ELSE <<left + w \div 2, top + h \div 2>>)
            /\ (call.screen.max_val < call.threshold => call.result = None)

\* a best score equal to the threshold was accepted
C19_Witness ==
    /\ pc = "matched"
    /\ call.screen.template_ok
    /\ call.screen.max_val = call.threshold
    /\ call.result # None
    /\ ~call.return_bounds

(***************************************************************************)
(* Further properties of the login flow (checked under Spec)               *)
(***************************************************************************)
SelectorClicks == Count(<<"click", "select_account_button.png">>)

\* C21: the first probe for the account selector remembers the point it
\* clicked, or None if it detected nothing (no match, or no capture); the
\* user-dropdown and user-entry sub-steps leave the remembered point as it
\* is; the closing sub-step makes no capture and clicks exactly the
\* remembered point if there is one, and nothing otherwise: from then on the
\* selector was clicked twice or not at all
C21_ClosingClickAtRememberedPoint ==
    /\ [](/\ (lastObs.site = "p2_select_account" =>
                 /\ select_account_coords = clickAt
                 /\ (lastObs.obs = "match" <=> select_account_coords # None)
                 /\ (lastObs.obs = "match" =>
                         clickAt = CentreOf(lastObs.loc, "select_account_button.png"))
                 /\ SelectorClicks = (IF lastObs.obs = "match" THEN 1 ELSE 0))
          /\ (pc \in {"p3_user_dropdown", "p4_select_user", "p5_minimize"} =>
                 SelectorClicks = (IF select_account_coords # None THEN 1 ELSE 0))
          /\ (probeObs = "no_match" /\ pc \notin PersistedSteps =>
                 SelectorClicks = (IF select_account_coords # None THEN 2 ELSE 0)))
    /\ [][ /\ (pc \in {"p3_user_dropdown", "p4_select_user", "p5_minimize"} =>
                 select_account_coords' = select_account_coords)
           /\ (pc = "p5_minimize" =>
                 /\ clickAt' = select_account_coords
                 /\ lastObs' = NoObs
                 /\ anyCapture' = anyCapture
                 /\ Len(ops') = Len(ops) + (IF select_account_coords # None
                                            THEN 1 ELSE 0)) ]_vars

\* the selector was detected, and clicked again at the remembered point
\* after the user entry was clicked in between
C21_Witness ==
    /\ pc = "step7_char_dropdown"
    /\ probeObs = "no_match"
    /\ select_account_coords # None
    /\ clickAt = select_account_coords
    /\ SelectorClicks = 2
    /\ Has(<<"click", "user_select_header.png">>)

\* the capture of the disclaimer probe has just failed
ProbeCaptureFailed ==
    lastObs.site = "step1_probe" /\ lastObs.obs = "capture_failed"

\* C25: when the capture of the disclaimer probe fails, whatever is on the
\* screen, need_login is False and the flow is at the first sub-step of the
\* PersistedSession path; and for the rest of the run it is at no FullLogin
\* step, types nothing and generates no code
C25_FailedProbeCaptureTakesPersistedPath ==
    [](ProbeCaptureFailed =>
          /\ pc = "p2_select_account"
          /\ need_login = "False"
          /\ ops = << >>
          /\ [](/\ pc \notin FullSteps
                /\ need_login = "False"
                /\ \A i \in 1..Len(ops) : ~FullOp(ops[i])))

C25_Witness ==
    /\ ProbeCaptureFailed
    /\ pc = "p2_select_account"
    /\ anyCapture

\* the FullLogin steps that come before the identifier is typed
BeforeIdentifier == {"step1_dismiss", "step2_login", "step3_cloudflare", "step4_email"}
\* the error-banner check has just detected the banner
BannerSeen == lastObs.site = "step4_error_check" /\ lastObs.obs = "match"
\* text was typed and Return pressed, as events i and i + 1
SubmittedAt(i, text) ==
    /\ i + 1 <= Len(ops)
    /\ ops[i] = <<"type", text>>
    /\ ops[i + 1] = <<"key", "Return">>

\* C26 (checked under SpecFlowsFair): a run on the FullLogin path has typed
\* the identifier, once, followed by Return, as soon as it is past Step 4,
\* whatever Steps 1-3 detected or clicked, and it does get past Step 4; it
\* has typed the credential, once, followed by Return and directly after the
\* submitted identifier, as soon as it is past Step 5, which every run in
\* which the error check does not detect the banner gets to; a run in which
\* it does has not typed the credential
C26_CredentialsTypedRegardless ==
    /\ [](probeObs = "match" =>
            /\ Count(<<"type", CONFIG["username"]>>) =
                   (IF pc \in BeforeIdentifier THEN 0 ELSE 1)
            /\ Count(<<"type", CONFIG["password"]>>) =
                   (IF \/ pc \in BeforeIdentifier
                       \/ pc \in {"step4_error_check", "step5_password"}
                       \/ BannerSeen
                    THEN 0 ELSE 1)
            /\ (pc \notin BeforeIdentifier =>
                   \E i \in 1..Len(ops) :
                      /\ SubmittedAt(i, CONFIG["username"])
                      /\ (Has(<<"type", CONFIG["password"]>>) =>
                              SubmittedAt(i + 2, CONFIG["password"]))))
    /\ ((pc = "step1_dismiss") ~> (pc = "step4_error_check"))
    /\ ((pc = "step5_password") ~> (pc = "step6_2fa"))

\* identifier and credential typed on a run that detected and clicked nothing
C26_Witness ==
    /\ probeObs = "match"
    /\ pc = "step6_2fa"
    /\ ops = << <<"type", CONFIG["username"]>>, <<"key", "Return">>,
                <<"type", CONFIG["password"]>>, <<"key", "Return">> >>
    /\ poll.site = "step2_login"
    /\ poll.ret = "False"

(***************************************************************************)
(* Further properties of the post-launch flow (checked under SpecPost)     *)
(***************************************************************************)
ConfirmClicks == Count(<<"click", "name_confirm_button.png">>)
ReturnKeys == Count(<<"key", "Return">>)

\* C22: in the name-entry branch nothing is confirmed before the name is
\* typed or while the confirm control is polled for; a run that has typed the
\* name ends with exactly one confirmation, which directly follows the typed
\* name: a click on the confirm control if the poll (5 s, 10 captures at
\* most) detected it, and one press of Return if the poll ran out; Return is
\* pressed in no other case
C22_ConfirmClickOrReturn ==
    /\ ConfirmClicks + ReturnKeys <= 1
    /\ (pc \notin {"pl_name_confirmed", "done"} => ConfirmClicks + ReturnKeys = 0)
    /\ (pc = "pl_name_confirmed" =>
            /\ ReturnKeys = 0
            /\ poll.site = "pl_confirm"
            /\ (ConfirmClicks = 1 <=> poll.ret = "True"))
    /\ (ReturnKeys = 1 =>
            /\ pc = "done"
            /\ poll.site = "pl_confirm"
            /\ poll.ret = "False"
            /\ poll.captures = 10
            /\ poll.clicks = 0)
    /\ (ConfirmClicks = 1 => poll.site = "pl_confirm" /\ poll.ret = "True")
    /\ (pc = "done" /\ Typed = 1 =>
            /\ ConfirmClicks + ReturnKeys = 1
            /\ ops[Len(ops) - 1] = <<"type", character_name>>
            /\ ops[Len(ops)] \in {<<"click", "name_confirm_button.png">>,
                                    <<"key", "Return">>})

\* the confirm control did not appear, and Return was pressed
C22_Witness ==
    /\ pc = "done"
    /\ Typed = 1
    /\ ReturnKeys = 1
    /\ ConfirmClicks = 0

(***************************************************************************)
(* Properties of click_at (checked under SpecMouse)                        *)
(***************************************************************************)
\* C23: whatever the start and the target, the last pointer move made before
\* the click is the move after the loop, to the target itself (steps + 1
\* waypoints, then that one); the click comes only then, with the pointer on
\* the target and no move since, and there is one click only
C23_ClickAfterFinalMoveToTarget ==
    /\ call.clicks <= 1
    /\ (call.last_move = "final" =>
            call.pointer = call.target /\ call.moves = call.steps + 2)
    /\ (pc \in {"click_at", "move_loop"} =>
            call.clicks = 0 /\ ops = << >> /\ call.last_move # "final")
    /\ (pc = "click" => call.clicks = 0 /\ call.last_move = "final")
    /\ (pc = "clicked_at" =>
            /\ call.clicks = 1
            /\ ops = << <<"click", "1">> >>
            /\ call.last_move = "final"
            /\ clickAt = call.target)

\* a move over a long distance (the pointer's position unknown), clicked
C23_Witness ==
    /\ pc = "clicked_at"
    /\ call.start = <<960, 540>>
    /\ call.steps > 10
    /\ call.clicks = 1

(***************************************************************************)
(* Further properties of the helpers (checked under SpecClick)             *)
(***************************************************************************)
\* C24 (as claimed): for every rectangle with width and height of 1 or more,
\* the point click_random_within clicks lies in the rectangle:
\* x <= rand_x <= x + width and y <= rand_y <= y + height
C24_ClickInsideBox ==
    (pc = "clicked" /\ call.width >= 1 /\ call.height >= 1) =>
        /\ call.x <= clickAt[1] /\ clickAt[1] <= call.x + call.width
        /\ call.y <= clickAt[2] /\ clickAt[2] <= call.y + call.height

\* C27: the post-launch flow has no result but 0 and raises nothing; it has
\* returned (0) exactly when it is past its last phase, and short of that a
\* next step is always there to take, whatever the captures and lookups gave
C27_PostLaunchAlwaysReturnsZero ==
    /\ rc \in {-1, 0}
    /\ exc = "none"
    /\ (rc = 0 <=> pc = "done")
    /\ InOrder(PostOrder, pc)
    /\ (pc # "done" => ENABLED PlNext)
    /\ (pc = "done" => attempt >= 1 /\ poll.site \in {"pl_play", "pl_confirm"})

\* a run, with a display name, in which no capture succeeded
C27_Witness ==
    /\ pc = "done"
    /\ rc = 0
    /\ ~NoName
    /\ ops = << >>
    /\ poll.site = "pl_play"
    /\ poll.ret = "False"
    /\ ~poll.cap_ok
    /\ attempt = LobbyAttempts
    /\ lastObs.obs = "capture_failed"

(***************************************************************************)
(* Properties of the two copies of wait_and_click (checked under SpecEquiv) *)
(***************************************************************************)
\* C28: given the same template, timeout and captures (failed ones, ones in
\* which the asset does not decode, and every score), the two copies of
\* wait_and_click have at every moment made the same captures, sleeps and
\* clicks (at the same point) in the same order, and they return together,
\* with the same result (not after the same time: each click takes its own)
C28_WaitAndClickCopiesAgree ==
    /\ call.login_log = call.post_log
    /\ call.login.ret = call.post.ret
    /\ call.login.found = call.post.found
    /\ call.login.captures = call.post.captures
    /\ call.login.sleeps = call.post.sleeps
    /\ call.login.clicks = call.post.clicks
    /\ call.login.elapsed = call.post.elapsed

\* both copies met a missing asset and a failed capture, then found and
\* clicked, one click taking longer than the other
C28_Witness ==
    /\ call.login.ret = "True"
    /\ call.login.wall < call.post.wall
    /\ call.post.ret = "True"
    /\ call.login.asset_error
    /\ call.post.cap_failed
    /\ Len(call.post_log) = 6
====
